---- MODULE Spec2Model ----
(***************************************************************************)
(* ProxyHydra: the verification pipeline of src/service/verifier.rs and    *)
(* src/service/quality.rs over the SQLite store of src/db/sqlite.rs.       *)
(*                                                                         *)
(* Two specifications share the module:                                    *)
(*   Spec       one verify_all call: dedup, one spawned task per           *)
(*              candidate gated by the semaphore, evaluate, the            *)
(*              conditional upsert, the join loop.                         *)
(*   SpecProbe  one run_tests call: one send_with_retries future per       *)
(*              (url, test) slot, driven try by try.                       *)
(*                                                                         *)
(* Numbers: an f64 that the code rounds with round2 is held as an integer  *)
(* number of hundredths (success_rate 0.5 is 50, a latency of 1.2 s is     *)
(* 120); stability is held in units of 1/10000 and score in units of       *)
(* 1/100000, which is exact for the values the model reaches.  The         *)
(* Duration of the backoff, always 500 ms * 2^n, is held as n.  Option<T>  *)
(* is a sequence of length 0 (None) or 1 (Some).                           *)
(***************************************************************************)
EXTENDS Integers, Sequences, FiniteSets, TLC

VARIABLES
    \* ---- verify_all (Spec) ----
    basics,         \* the Vec<ProxyBasic> argument, deduplicated by Start
    main_pc,        \* "start" | "join" | "returned"
    joined,         \* number of JoinHandles the join loop has awaited
    ret,            \* None, or Some(Result<usize>) returned by verify_all
    task_pc,        \* state of each spawned task
    permits,        \* permits available in the Semaphore
    semaphore,      \* APP_CONFIG.verify.semaphore
    success_count,  \* the AtomicUsize
    result,         \* per task: the ProxyCheckResult evaluate is filling
    now,            \* the clock Utc::now() reads
    store,          \* the table: (ip, port) -> Option<row>
    store_at_start, \* history: the store when the task took its permit
    upsert_calls,   \* history: the Proxy values passed to upsert_quality_proxy
    written,        \* history: the keys whose upsert succeeded in this call
    \* ---- run_tests / send_with_retries (SpecProbe) ----
    config,         \* QualityConfig: test_count, max_retries, n_urls
    slot_pc,        \* per future: "request" | "sleeping" | "done" | "panicked"
    attempt,        \* per future: the u8 loop counter
    backoff,        \* per future: the Duration 500 ms * 2^n, as n
    requests,       \* history: per future, the number of GETs it has sent
    last_response,  \* history: per future, the kind of its latest response
    sleeps,         \* history: per future, the delays slept (as n), in order
    results,        \* the QualityTestResults being filled by run_tests
    probe_pc,       \* "start" | "running" | "returned" | "failed"
    \* ---- dedup_proxies (SpecDedup) ----
    fetched,        \* the Vec<ProxyBasic> given to the first call
    deduped,        \* the Vecs returned by the successive calls, in order
    \* ---- evaluate (SpecEvaluate) ----
    eval_pc,        \* "start" | "tested" | "returned" | "failed"
    test_results,   \* the QualityTestResults run_tests returned
    updated,        \* the ProxyCheckResult evaluate is filling
    \* ---- the table of db/sqlite.rs (SpecStore, SpecCache) ----
    table,          \* the rows of the table, in insertion order
    last,           \* history: the latest store operation and the table before
    proxies_table,  \* the table named `proxies` when db.table_name is another
                    \* name: None (no such table), or Some(its rows)
    \* ---- CACHE and cache_proxies (SpecCache) ----
    cache,          \* the entry "proxies" of CACHE: None, or Some(Vec<Proxy>)
    handler_pc,     \* per request: "get" | "list" | "set" | "done"
    handler_list,   \* per request: the Vec<Proxy> list_all_proxies returned
    reads,          \* history: the number of list_all_proxies calls
    \* ---- the backend constructor (SpecTable) ----
    table_name,     \* APP_CONFIG.db.table_name, a sequence of characters
    storage_pc,     \* "new" | "connected" | "ready" | "failed" | "panicked"
    \* ---- run_tests' collecting loop (SpecOrder) ----
    outcome,        \* per attempt: what its future resolves to
    completed,      \* the attempts whose future has resolved, in that order
    collected       \* the QualityTestResults filled in that order

verify_vars == <<basics, main_pc, joined, ret, task_pc, permits, semaphore,
                 success_count, result, now, store, store_at_start,
                 upsert_calls, written>>
probe_vars == <<slot_pc, attempt, backoff, requests, last_response, sleeps,
                results, probe_pc>>
dedup_vars == <<fetched, deduped>>
eval_vars == <<eval_pc, test_results, updated>>
table_vars == <<table, last, proxies_table>>
cache_vars == <<cache, handler_pc, handler_list, reads>>
name_vars == <<table_name, storage_pc>>
order_vars == <<outcome, completed, collected>>
side_vars == <<table_vars, cache_vars, name_vars, order_vars>>
pure_vars == <<dedup_vars, eval_vars, side_vars>>
vars == <<verify_vars, config, probe_vars, pure_vars>>

----------------------------------------------------------------------------
\* Bounds of the model.
MaxBatch == 3       \* longest input Vec<ProxyBasic>
MaxPermits == 2     \* largest APP_CONFIG.verify.semaphore
MaxSlots == 2       \* largest |test_urls| * test_count in SpecProbe
MaxRetries == 3     \* largest max_retries in SpecProbe
MaxTotal == 6       \* largest |test_urls| * test_count in SpecEvaluate
MaxCalls == 2       \* successive dedup_proxies calls in SpecDedup
MaxOps == 3         \* store operations in SpecStore
MaxHandlers == 2    \* requests through cache_proxies in SpecCache
MaxName == 3        \* longest db.table_name in SpecTable
MaxAttempts == 4    \* largest |test_urls| * test_count in SpecOrder

\* Option<T>
None == << >>
Some(v) == <<v>>
IsSome(o) == o # << >>
unwrap_or(o, d) == IF o = << >> THEN d ELSE o[1]

Max(a, b) == IF a >= b THEN a ELSE b
Min(a, b) == IF a <= b THEN a ELSE b
Abs(a) == IF a < 0 THEN 0 - a ELSE a
clamp(x, lo, hi) == Max(lo, Min(x, hi))

RECURSIVE SumSeq(_)
SumSeq(s) == IF s = << >> THEN 0 ELSE Head(s) + SumSeq(Tail(s))

\* Candidates the fetchers can produce, as ProxyBasic values.
ProxyBasic(ip, port) == [ip |-> ip, port |-> port]
Candidates == {ProxyBasic("10.0.0.1", "80"), ProxyBasic("10.0.0.1", "81"),
               ProxyBasic("10.0.0.2", "80")}

\* Latencies of a successful try after round2, in hundredths of a second.
Latencies == {5, 120}

----------------------------------------------------------------------------
\* common/utils.rs

\* round2 of the quotient num/den (num >= 0, den > 0) taken over the
\* rationals, in hundredths: (val * 100.0).round(), f64::round rounding
\* half away from zero.  The f64 computation is f64_round2 below.
round2(num, den) == (200 * num + den) \div (2 * den)

\* dedup_proxies: keep the first candidate of each key, the key being the
\* string format!("{}:{}", ip, port).
DedupKey(proxy) == proxy.ip \o ":" \o proxy.port

RECURSIVE DedupFrom(_, _, _)
DedupFrom(proxies, seen, out) ==
    IF proxies = << >> THEN out
    ELSE LET proxy == Head(proxies)
             key == DedupKey(proxy)
         IN  IF key \notin seen
             THEN DedupFrom(Tail(proxies), seen \cup {key}, Append(out, proxy))
             ELSE DedupFrom(Tail(proxies), seen, out)

RECURSIVE Reverse(_)
Reverse(s) == IF s = << >> THEN << >> ELSE Append(Reverse(Tail(s)), Head(s))

\* Mutant: the last candidate of each key is kept instead of the first.
dedup_keep_last(proxies) == Reverse(DedupFrom(Reverse(proxies), {}, << >>))

\* Mutant: the batch is verified as it was fetched.
dedup_nothing(proxies) == proxies

dedup_proxies(proxies) == DedupFrom(proxies, {}, << >>)

\* Integer square root (floor), for the powf(0.5) of speed_to_score.
RECURSIVE IsqrtFrom(_, _)
IsqrtFrom(n, r) == IF (r + 1) * (r + 1) > n THEN r ELSE IsqrtFrom(n, r + 1)
Isqrt(n) == IsqrtFrom(n, 0)

\* speed_to_score(speed): speed arrives in hundredths of the f64 it stands
\* for (the code compares that f64 against 300.0, 1000.0 and 5000.0), the
\* score leaves in units of 1/10000.  The powf(0.5) branch is truncated to
\* the unit.
speed_to_score(speed) ==
    IF speed <= 0 THEN 0
    ELSE IF speed < 30000 THEN 10000
    ELSE IF speed < 100000
         THEN 10000 - Isqrt(((speed - 30000) * 100000000) \div 70000)
    ELSE IF speed < 500000
         THEN Max(3000 - ((speed - 100000) * 10000) \div 400000, 0)
    ELSE 0

----------------------------------------------------------------------------
\* f64 arithmetic as the aggregates use it (IEEE 754 binary64, round to
\* nearest, ties to even)

\* f64 values v with 0 <= v < 2^15 that are multiples of 2^-75, as the
\* little-endian limbs of v * 2^75 in base 2^15: five limbs of fraction and
\* one of integer part.  Every f64 the aggregates go through is such a value.
LimbBits == 15
Limb == 2^LimbBits
F64Limbs == 6
F64Mantissa == 53

f64_zero == [i \in 1..F64Limbs |-> 0]

\* the integer k as f64 (exact), 0 <= k < 2^15
f64_from(k) == [i \in 1..F64Limbs |-> IF i = F64Limbs THEN k ELSE 0]

\* The exact sum of two limb strings, from the lowest limb up.
RECURSIVE AddFrom(_, _, _, _)
AddFrom(a, b, i, carry) ==
    IF i > F64Limbs THEN << >>
    ELSE <<(a[i] + b[i] + carry) % Limb>>
           \o AddFrom(a, b, i + 1, (a[i] + b[i] + carry) \div Limb)

AddLimbs(a, b) ==
    IF a = f64_zero THEN b
    ELSE IF b = f64_zero THEN a
    ELSE AddFrom(a, b, 1, 0)

\* The number of significant bits of a limb and of the limb string.
BitLen(x) ==
    IF x = 0 THEN 0
    ELSE CHOOSE n \in 1..LimbBits : 2^(n - 1) <= x /\ x < 2^n
RECURSIVE TopLimb(_, _)
TopLimb(a, i) == IF i = 0 \/ a[i] # 0 THEN i ELSE TopLimb(a, i - 1)
TopBit(a) ==
    LET t == TopLimb(a, F64Limbs)
    IN  IF t = 0 THEN 0 ELSE LimbBits * (t - 1) + BitLen(a[t])

\* Bit n (from 0) of the limb string.
BitAt(a, n) == (a[n \div LimbBits + 1] \div 2^(n % LimbBits)) % 2

\* Round to the nearest value of 53 significant bits, ties to even; sticky
\* says that the exact value has a non-zero part below the lowest limb.
Round53(a, sticky) ==
    LET drop == TopBit(a) - F64Mantissa
    IN  IF a = f64_zero \/ drop <= 0 THEN a
        ELSE LET j == (drop - 1) \div LimbBits + 1
                 c == (drop - 1) % LimbBits
                 rest == \/ sticky
                         \/ (a[j] % 2^c) # 0
                         \/ \E i \in 1..(j - 1) : a[i] # 0
                 kept == [i \in 1..F64Limbs |->
                            IF i < j THEN 0
                            ELSE IF i = j THEN a[i] - (a[i] % 2^(c + 1))
                            ELSE a[i]]
                 ulp == [i \in 1..F64Limbs |->
                            IF i = drop \div LimbBits + 1
                            THEN 2^(drop % LimbBits) ELSE 0]
             IN  IF BitAt(a, drop - 1) = 1 /\ (rest \/ BitAt(a, drop) = 1)
                 THEN AddLimbs(kept, ulp) ELSE kept

\* a + b
f64_add(a, b) == Round53(AddLimbs(a, b), FALSE)

\* The quotient of the limb string by an integer 1 <= n < 2^15, by long
\* division from the highest limb down: <<remainder, quotient limbs>>.
RECURSIVE DivFrom(_, _, _)
DivFrom(a, n, i) ==
    IF i > F64Limbs THEN <<0, << >> >>
    ELSE LET up == DivFrom(a, n, i + 1)
             t == up[1] * Limb + a[i]
         IN  <<t % n, <<t \div n>> \o up[2]>>

\* a / (n as f64)
f64_div(a, n) ==
    LET qr == DivFrom(a, n, 1)
    IN  IF a = f64_zero THEN a ELSE Round53(qr[2], qr[1] # 0)

\* The exact product of the limb string and an integer 0 <= k < 2^15.
RECURSIVE MulFrom(_, _, _, _)
MulFrom(a, k, i, carry) ==
    IF i > F64Limbs THEN << >>
    ELSE <<(a[i] * k + carry) % Limb>>
           \o MulFrom(a, k, i + 1, (a[i] * k + carry) \div Limb)

\* a * (k as f64)
f64_mul(a, k) ==
    IF a = f64_zero THEN a ELSE Round53(MulFrom(a, k, 1, 0), FALSE)

\* f64::round as an integer: half away from zero.
f64_round(a) == a[F64Limbs] + BitAt(a, LimbBits * (F64Limbs - 1) - 1)

\* round2, in hundredths: (val * 100.0).round(); the division by 100.0
\* that follows is f64_hundredths.
f64_round2(a) == f64_round(f64_mul(a, 100))

\* A latency as send_with_retries returns it: round2(elapsed), the f64
\* nearest to k / 100 for k = (elapsed * 100.0).round().
f64_hundredths(k) == f64_div(f64_from(k), 100)

\* successes.iter().sum::<f64>(): the first k elements added left to right.
RECURSIVE f64_sum(_, _)
f64_sum(s, k) ==
    IF k = 0 THEN f64_zero
    ELSE f64_add(f64_sum(s, k - 1), f64_hundredths(s[k]))

----------------------------------------------------------------------------
\* service/quality.rs: QualityTestResults

NewResults(total) == [successes |-> << >>, failures |-> 0, total |-> total]
record_success(r, d) == [r EXCEPT !.successes = Append(@, d)]
record_failure(r) == [r EXCEPT !.failures = @ + 1]

\* Mutant: the quotient is truncated to two decimals instead of rounded.
success_rate_truncated(r) ==
    IF r.total = 0 THEN 0 ELSE (100 * Len(r.successes)) \div r.total

\* Mutant: the quotient is rounded over the rationals, without the
\* rounding of the f64 division.
success_rate_exact(r) ==
    IF r.total = 0 THEN 0 ELSE round2(Len(r.successes), r.total)

\* successes.len() as f64 / total as f64, then round2: (val * 100.0).round(),
\* in hundredths.
f64_success_rate(n, total) == f64_round2(f64_div(f64_from(n), total))

\* f64_success_rate for the totals up to MaxTotal, as a table built once.
SuccessRates ==
    [nt \in {<<n, t>> : n \in 0..MaxTotal, t \in 1..MaxTotal} |->
        f64_success_rate(nt[1], nt[2])] @@ << >>

\* success_rate(), in hundredths.
success_rate(r) ==
    IF r.total = 0 THEN 0
    ELSE IF <<Len(r.successes), r.total>> \in DOMAIN SuccessRates
    THEN SuccessRates[<<Len(r.successes), r.total>>]
    ELSE f64_success_rate(Len(r.successes), r.total)

\* Mutant: the mean over the reals, without the rounding of each f64 step.
average_speed_exact(r) ==
    IF r.successes = << >> THEN 0
    ELSE (2 * SumSeq(r.successes) + Len(r.successes)) \div (2 * Len(r.successes))

\* average_speed(), in hundredths of a second: the f64 sum of the successes
\* in the order they were recorded, divided by their number, then round2,
\* (val * 100.0).round().
f64_average(successes) ==
    f64_round2(f64_div(f64_sum(successes, Len(successes)), Len(successes)))

\* f64_average over the success vectors of up to MaxTotal recorded
\* latencies, each 0.00 or one of Latencies, as a table built once (the
\* merge with the empty function makes it an explicit function).
RecordedVectors == UNION {[1..n -> {0} \cup Latencies] : n \in 1..MaxTotal}
AverageSpeeds == [successes \in RecordedVectors |-> f64_average(successes)]
                     @@ << >>

average_speed(r) ==
    IF r.successes = << >> THEN 0
    ELSE IF r.successes \in RecordedVectors THEN AverageSpeeds[r.successes]
    ELSE f64_average(r.successes)

\* Mutant: the weights 0.7 and 0.3 are exchanged.
StabilityWeightsSwapped(rate, old) ==
    IF IsSome(old)
    THEN LET delta == Abs(rate - unwrap_or(old[1].success_rate, 0))
             stab == (unwrap_or(old[1].stability, 5000) * 3
                      + (10000 - 100 * delta) * 7) \div 10
         IN  clamp(stab, 0, 10000)
    ELSE 5000

\* The stability evaluate computes from the row find_proxy_by_ip_port
\* returned (None when there is no row), in units of 1/10000:
\* old.stability * 0.7 + (1 - |rate - old.success_rate|) * 0.3, clamped.
Stability(rate, old) ==
    IF IsSome(old)
    THEN LET delta == Abs(rate - unwrap_or(old[1].success_rate, 0))
             stab == (unwrap_or(old[1].stability, 5000) * 7
                      + (10000 - 100 * delta) * 3) \div 10
         IN  clamp(stab, 0, 10000)
    ELSE 5000

\* ProxyCheckResult::default()
DefaultResult == [speed |-> None, success_rate |-> None, stability |-> None,
                  score |-> None, last_checked |-> None]

\* The weights of QualityConfig::default (0.4, 0.3, 0.3), in tenths.
DefaultWeights ==
    [speed_weight |-> 4, success_weight |-> 3, stability_weight |-> 3]

\* Mutant: the weighted sum is stored without the clamp.
compute_score_unclamped(proxy, cfg) ==
    [proxy EXCEPT !.score =
        Some(speed_to_score(unwrap_or(proxy.speed, 500000)) * cfg.speed_weight
             + 100 * unwrap_or(proxy.success_rate, 0) * cfg.success_weight
             + unwrap_or(proxy.stability, 0) * cfg.stability_weight)]

\* compute_score(proxy, config): the score in units of 1/100000, the
\* weights of config being tenths.  A missing speed stands for f64::MAX,
\* which speed_to_score maps like any speed >= 5000.0.
compute_score(proxy, cfg) ==
    LET speed_score == speed_to_score(unwrap_or(proxy.speed, 500000))
        success == 100 * unwrap_or(proxy.success_rate, 0)
        stability == unwrap_or(proxy.stability, 0)
    IN  [proxy EXCEPT !.score =
            Some(clamp(speed_score * cfg.speed_weight
                       + success * cfg.success_weight
                       + stability * cfg.stability_weight, 0, 100000))]

\* evaluate, lines 179-181: the fields set from the test results and the
\* clock, before the store is read.
ResultOfTests(r, at) ==
    [DefaultResult EXCEPT !.speed = Some(average_speed(r)),
                          !.success_rate = Some(success_rate(r)),
                          !.last_checked = Some(at)]

\* evaluate, lines 183-194: stability from the row found, then the score.
ResultWithScore(res, old, cfg) ==
    LET stability == Some(Stability(unwrap_or(res.success_rate, 0), old))
    IN  compute_score([res EXCEPT !.stability = stability], cfg)

\* Proxy::from_parts
from_parts(basic, res) ==
    [ip |-> basic.ip, port |-> basic.port, speed |-> res.speed,
     success_rate |-> res.success_rate, stability |-> res.stability,
     score |-> res.score, last_checked |-> res.last_checked]

----------------------------------------------------------------------------
\* db/sqlite.rs: the table, one row at most per (ip, port) (UNIQUE(ip, port))

Key(ip, port) == ProxyBasic(ip, port)
RowOf(p) == [speed |-> p.speed, success_rate |-> p.success_rate,
             stability |-> p.stability, score |-> p.score,
             last_checked |-> p.last_checked]

\* Mutant: the quality columns have no DEFAULT 0.0 and stay NULL.
BasicRowPartial(at) ==
    [speed |-> None, success_rate |-> None, stability |-> None,
     score |-> None, last_checked |-> Some(at)]

\* The row INSERT (ip, port) creates: the column defaults of create_table.
BasicRow(at) == [speed |-> Some(0), success_rate |-> Some(0),
                 stability |-> Some(0), score |-> Some(0),
                 last_checked |-> Some(at)]

\* INSERT OR IGNORE INTO t (ip, port)
insert_basic_proxy(st, proxy, at) ==
    IF IsSome(st[Key(proxy.ip, proxy.port)]) THEN st
    ELSE [st EXCEPT ![Key(proxy.ip, proxy.port)] = Some(BasicRow(at))]

\* Mutant: the table is emptied before the row is written.
upsert_replaces_table(st, p) ==
    [c \in DOMAIN st |->
        IF c = Key(p.ip, p.port) THEN Some(RowOf(p)) ELSE None]

\* Mutant: DO UPDATE SET leaves last_checked out.
upsert_keeps_last_checked(st, p) ==
    LET old == st[Key(p.ip, p.port)]
    IN  [st EXCEPT ![Key(p.ip, p.port)] =
            IF IsSome(old)
            THEN Some([RowOf(p) EXCEPT !.last_checked = old[1].last_checked])
            ELSE Some(RowOf(p))]

\* INSERT ... ON CONFLICT(ip, port) DO UPDATE SET the five quality columns
upsert_quality_proxy(st, p) ==
    [st EXCEPT ![Key(p.ip, p.port)] = Some(RowOf(p))]

\* SELECT * WHERE ip = ? AND port = ?, fetch_optional
find_proxy_by_ip_port(st, ip, port) ==
    IF Key(ip, port) \in DOMAIN st /\ IsSome(st[Key(ip, port)])
    THEN Some(from_parts(ProxyBasic(ip, port), st[Key(ip, port)][1]))
    ELSE None

\* A row an earlier verification pass wrote (at clock 0).
PriorRow == [speed |-> Some(40), success_rate |-> Some(80),
             stability |-> Some(6000),
             score |-> compute_score(
                          [DefaultResult EXCEPT !.speed = Some(40),
                                                !.success_rate = Some(80),
                                                !.stability = Some(6000)],
                          DefaultWeights).score,
             last_checked |-> Some(0)]

\* Stores the program can be in before a verify_all call: the empty table,
\* and a table where one key has no row, one the row of insert_basic_proxy
\* and one a row of an earlier pass.
InitStores ==
    {[c \in Candidates |-> None],
     [c \in Candidates |->
        IF c.ip = "10.0.0.2" THEN None
        ELSE IF c.port = "80" THEN Some(BasicRow(0)) ELSE Some(PriorRow)]}

----------------------------------------------------------------------------
\* service/quality.rs: QualityConfig::default and run_tests as a function

\* The (test_count, max_retries) presets of the three verify levels.
LevelPreset(level) ==
    CASE level = 0 -> [test_count |-> 1, max_retries |-> 0]
      [] level = 1 -> [test_count |-> 3, max_retries |-> 3]
      [] level = 2 -> [test_count |-> 5, max_retries |-> 5]
      [] OTHER -> [test_count |-> 3, max_retries |-> 3]

QualityConfig(level, n_urls) ==
    [speed_weight |-> DefaultWeights.speed_weight,
     success_weight |-> DefaultWeights.success_weight,
     stability_weight |-> DefaultWeights.stability_weight,
     test_count |-> LevelPreset(level).test_count,
     max_retries |-> LevelPreset(level).max_retries,
     n_urls |-> n_urls]

\* The configuration of the verify_all call of Spec: level 0 (Fast), two
\* test_urls.
VerifyConfig == QualityConfig(0, 2)

\* let total_tests = config.test_urls.len() as u64 * config.test_count
total_tests(cfg) == cfg.n_urls * cfg.test_count

\* What one send_with_retries future resolves to: None, or Some(latency).
SlotOutcomes == {None} \cup {Some(l) : l \in Latencies}

\* run_tests' collecting loop over the futures in completion order `outs`.
RECURSIVE Collect(_, _)
Collect(r, outs) ==
    IF outs = << >> THEN r
    ELSE Collect(IF IsSome(Head(outs)) THEN record_success(r, Head(outs)[1])
                 ELSE record_failure(r), Tail(outs))

\* The QualityTestResults run_tests can return under cfg.
RunTestsResults(cfg) ==
    {Collect(NewResults(total_tests(cfg)), outs) :
        outs \in [1..total_tests(cfg) -> SlotOutcomes]}

----------------------------------------------------------------------------
\* service/verifier.rs: verify_all

Tasks == DOMAIN task_pc
Terminal == {"Verified", "Rejected", "Errored", "Panicked"}
HoldsPermit(i) == task_pc[i] \in {"Probing", "Finding", "Upserting"}

\* Mutant: the semaphore is created with at least one permit.
StartWithAPermit ==
    /\ main_pc = "start"
    /\ basics' = dedup_proxies(basics)
    /\ task_pc' = [i \in 1..Len(basics') |-> "Pending"]
    /\ result' = [i \in 1..Len(basics') |-> DefaultResult]
    /\ store_at_start' = [i \in 1..Len(basics') |-> None]
    /\ permits' = Max(semaphore, 1)
    /\ success_count' = 0
    /\ joined' = 0
    /\ main_pc' = "join"
    /\ UNCHANGED <<ret, semaphore, now, store, upsert_calls, written>>

\* basics = dedup_proxies(basics); the semaphore; one tokio::spawn per
\* candidate (lines 59-102).
Start ==
    /\ main_pc = "start"
    /\ basics' = dedup_proxies(basics)
    /\ task_pc' = [i \in 1..Len(basics') |-> "Pending"]
    /\ result' = [i \in 1..Len(basics') |-> DefaultResult]
    /\ store_at_start' = [i \in 1..Len(basics') |-> None]
    /\ permits' = semaphore
    /\ success_count' = 0
    /\ joined' = 0
    /\ main_pc' = "join"
    /\ UNCHANGED <<ret, semaphore, now, store, upsert_calls, written>>

\* Mutant: the task starts without waiting for a permit.
AcquireNoGate(i) ==
    /\ task_pc[i] = "Pending"
    /\ permits' = permits - 1
    /\ task_pc' = [task_pc EXCEPT ![i] = "Probing"]
    /\ store_at_start' = [store_at_start EXCEPT ![i] = Some(store[basics[i]])]
    /\ UNCHANGED <<basics, main_pc, joined, ret, semaphore, success_count,
                   result, now, store, upsert_calls, written>>

\* let _permit = semaphore.acquire_owned().await.unwrap()
Acquire(i) ==
    /\ task_pc[i] = "Pending"
    /\ permits > 0
    /\ permits' = permits - 1
    /\ task_pc' = [task_pc EXCEPT ![i] = "Probing"]
    /\ store_at_start' = [store_at_start EXCEPT ![i] = Some(store[basics[i]])]
    /\ UNCHANGED <<basics, main_pc, joined, ret, semaphore, success_count,
                   result, now, store, upsert_calls, written>>

\* The task ends: its locals and _permit are dropped.

\* Mutant: a task that ends keeps its permit.
EndTaskKeepsPermit(i, state) ==
    /\ task_pc' = [task_pc EXCEPT ![i] = state]
    /\ result' = [result EXCEPT ![i] = DefaultResult]
    /\ UNCHANGED permits

\* The task ends: its locals, _permit among them, are dropped.
EndTask(i, state) ==
    /\ task_pc' = [task_pc EXCEPT ![i] = state]
    /\ result' = [result EXCEPT ![i] = DefaultResult]
    /\ permits' = permits + 1

\* Mutant: the permit is given back when run_tests has returned, before
\* the store is read.
ProbeReleasesPermit(i) ==
    /\ task_pc[i] = "Probing"
    /\ \E r \in RunTestsResults(config) :
          result' = [result EXCEPT ![i] = ResultOfTests(r, now)]
    /\ task_pc' = [task_pc EXCEPT ![i] = "Finding"]
    /\ permits' = permits + 1
    /\ UNCHANGED <<basics, main_pc, joined, ret, semaphore, success_count,
                   now, store, store_at_start, upsert_calls, written>>

\* evaluate: run_tests returned Ok; speed, success_rate, last_checked.
Probe(i) ==
    /\ task_pc[i] = "Probing"
    /\ \E r \in RunTestsResults(config) :
          result' = [result EXCEPT ![i] = ResultOfTests(r, now)]
    /\ task_pc' = [task_pc EXCEPT ![i] = "Finding"]
    /\ UNCHANGED <<basics, main_pc, joined, ret, permits, semaphore,
                   success_count, now, store, store_at_start, upsert_calls,
                   written>>

\* Mutant: a candidate whose run_tests failed is queued again.
ProbeErrorRetries(i) ==
    /\ task_pc[i] = "Probing"
    /\ EndTask(i, "Pending")
    /\ UNCHANGED <<basics, main_pc, joined, ret, semaphore, success_count,
                   now, store, store_at_start, upsert_calls, written>>

\* run_tests returned Err (reqwest::Proxy::all or the client builder
\* failed): evaluate and verify_single return Err, the task logs it.
ProbeError(i) ==
    /\ task_pc[i] = "Probing"
    /\ EndTask(i, "Errored")
    /\ UNCHANGED <<basics, main_pc, joined, ret, semaphore, success_count,
                   now, store, store_at_start, upsert_calls, written>>

\* Mutant: verify_single tests success_rate >= 0.0, so every evaluated
\* candidate goes on to the upsert.
FindUpsertsAll(i) ==
    /\ task_pc[i] = "Finding"
    /\ LET old == find_proxy_by_ip_port(store, basics[i].ip, basics[i].port)
       IN  result' = [result EXCEPT
                         ![i] = ResultWithScore(result[i], old, config)]
    /\ task_pc' = [task_pc EXCEPT ![i] = "Upserting"]
    /\ UNCHANGED <<basics, main_pc, joined, ret, permits, semaphore,
                   success_count, now, store, store_at_start, upsert_calls,
                   written>>

\* evaluate: find_proxy_by_ip_port returned Ok; stability, score; then
\* verify_single's test of success_rate.
Find(i) ==
    /\ task_pc[i] = "Finding"
    /\ LET old == find_proxy_by_ip_port(store, basics[i].ip, basics[i].port)
           res == ResultWithScore(result[i], old, config)
       IN  IF unwrap_or(res.success_rate, 0) > 0
           THEN /\ result' = [result EXCEPT ![i] = res]
                /\ task_pc' = [task_pc EXCEPT ![i] = "Upserting"]
                /\ UNCHANGED permits
           ELSE EndTask(i, "Rejected")
    /\ UNCHANGED <<basics, main_pc, joined, ret, semaphore, success_count,
                   now, store, store_at_start, upsert_calls, written>>

\* Mutant: the storage error of one task is returned by verify_all.
FindErrorAborts(i) ==
    /\ task_pc[i] = "Finding"
    /\ EndTask(i, "Errored")
    /\ main_pc' = "returned"
    /\ ret' = Some([ok |-> FALSE, value |-> 0])
    /\ UNCHANGED <<basics, joined, semaphore, success_count, now, store,
                   store_at_start, upsert_calls, written>>

\* find_proxy_by_ip_port returned Err.
FindError(i) ==
    /\ task_pc[i] = "Finding"
    /\ EndTask(i, "Errored")
    /\ UNCHANGED <<basics, main_pc, joined, ret, semaphore, success_count,
                   now, store, store_at_start, upsert_calls, written>>

\* Mutant: Ok(true) is logged without success_count.fetch_add(1).
UpsertUncounted(i) ==
    /\ task_pc[i] = "Upserting"
    /\ LET p == from_parts(basics[i], result[i])
       IN  /\ store' = upsert_quality_proxy(store, p)
           /\ upsert_calls' = upsert_calls \cup {p}
    /\ written' = written \cup {basics[i]}
    /\ EndTask(i, "Verified")
    /\ UNCHANGED <<basics, main_pc, joined, ret, semaphore, now,
                   success_count, store_at_start>>

\* upsert_quality_proxy returned Ok: Ok(true), success_count.fetch_add(1).
Upsert(i) ==
    /\ task_pc[i] = "Upserting"
    /\ LET p == from_parts(basics[i], result[i])
       IN  /\ store' = upsert_quality_proxy(store, p)
           /\ upsert_calls' = upsert_calls \cup {p}
    /\ written' = written \cup {basics[i]}
    /\ success_count' = success_count + 1
    /\ EndTask(i, "Verified")
    /\ UNCHANGED <<basics, main_pc, joined, ret, semaphore, now,
                   store_at_start>>

\* Mutant: success_count is incremented before the upsert's result is
\* looked at.
UpsertErrorCounted(i) ==
    /\ task_pc[i] = "Upserting"
    /\ upsert_calls' = upsert_calls \cup {from_parts(basics[i], result[i])}
    /\ success_count' = success_count + 1
    /\ EndTask(i, "Errored")
    /\ UNCHANGED <<basics, main_pc, joined, ret, semaphore, now, store,
                   store_at_start, written>>

\* upsert_quality_proxy returned Err: nothing was written.
UpsertError(i) ==
    /\ task_pc[i] = "Upserting"
    /\ upsert_calls' = upsert_calls \cup {from_parts(basics[i], result[i])}
    /\ EndTask(i, "Errored")
    /\ UNCHANGED <<basics, main_pc, joined, ret, semaphore, success_count,
                   now, store, store_at_start, written>>

\* Mutant: the permit of a task that panicked is never given back.
PanicKeepsPermit(i) ==
    /\ HoldsPermit(i)
    /\ task_pc' = [task_pc EXCEPT ![i] = "Panicked"]
    /\ result' = [result EXCEPT ![i] = DefaultResult]
    /\ UNCHANGED <<basics, main_pc, joined, ret, permits, semaphore,
                   success_count, now, store, store_at_start, upsert_calls,
                   written>>

\* The task panics while it runs (an unwrap/expect, e.g. get_storage()):
\* unwinding drops _permit, the JoinHandle resolves to Err(JoinError).
Panic(i) ==
    /\ HoldsPermit(i)
    /\ EndTask(i, "Panicked")
    /\ UNCHANGED <<basics, main_pc, joined, ret, semaphore, success_count,
                   now, store, store_at_start, upsert_calls, written>>

\* Mutant: the loop steps over a handle without awaiting it.
JoinNextNoWait ==
    /\ main_pc = "join"
    /\ joined < Len(basics)
    /\ joined' = joined + 1
    /\ UNCHANGED <<basics, main_pc, ret, task_pc, permits, semaphore,
                   success_count, result, now, store, store_at_start,
                   upsert_calls, written>>

\* for task in tasks { task.await??; }: the next handle resolved Ok(Ok(())).
JoinNext ==
    /\ main_pc = "join"
    /\ joined < Len(basics)
    /\ task_pc[joined + 1] \in {"Verified", "Rejected", "Errored"}
    /\ joined' = joined + 1
    /\ UNCHANGED <<basics, main_pc, ret, task_pc, permits, semaphore,
                   success_count, result, now, store, store_at_start,
                   upsert_calls, written>>

\* task.await is Err(JoinError): the first ? returns it from verify_all.
JoinError ==
    /\ main_pc = "join"
    /\ joined < Len(basics)
    /\ task_pc[joined + 1] = "Panicked"
    /\ ret' = Some([ok |-> FALSE, value |-> 0])
    /\ main_pc' = "returned"
    /\ UNCHANGED <<basics, joined, task_pc, permits, semaphore, success_count,
                   result, now, store, store_at_start, upsert_calls, written>>

\* Mutant: a batch without any verified candidate is reported as an error.
ReturnErrOnZero ==
    /\ main_pc = "join"
    /\ joined = Len(basics)
    /\ ret' = Some([ok |-> success_count > 0, value |-> success_count])
    /\ main_pc' = "returned"
    /\ UNCHANGED <<basics, joined, task_pc, permits, semaphore, success_count,
                   result, now, store, store_at_start, upsert_calls, written>>

\* let ok = success_count.load(..); Ok(ok)
Return ==
    /\ main_pc = "join"
    /\ joined = Len(basics)
    /\ ret' = Some([ok |-> TRUE, value |-> success_count])
    /\ main_pc' = "returned"
    /\ UNCHANGED <<basics, joined, task_pc, permits, semaphore, success_count,
                   result, now, store, store_at_start, upsert_calls, written>>

VerifyInit ==
    /\ basics \in UNION {[1..n -> Candidates] : n \in 0..MaxBatch}
    /\ semaphore \in 0..MaxPermits
    /\ store \in InitStores
    /\ config = VerifyConfig
    /\ main_pc = "start"
    /\ joined = 0
    /\ ret = None
    /\ task_pc = << >>
    /\ permits = 0
    /\ success_count = 0
    /\ result = << >>
    /\ now = 1
    /\ store_at_start = << >>
    /\ upsert_calls = {}
    /\ written = {}

ProbeIdle ==
    /\ slot_pc = << >>
    /\ attempt = << >>
    /\ backoff = << >>
    /\ requests = << >>
    /\ last_response = << >>
    /\ sleeps = << >>
    /\ results = NewResults(0)
    /\ probe_pc = "idle"

DedupIdle ==
    /\ fetched = << >>
    /\ deduped = << >>

EvalIdle ==
    /\ eval_pc = "idle"
    /\ test_results = NewResults(0)
    /\ updated = DefaultResult

\* No store operation yet.
NoOp == [op |-> "none", basic |-> ProxyBasic("", ""), proxy |-> None,
         before |-> << >>]

TableIdle ==
    /\ table = << >>
    /\ last = NoOp
    /\ proxies_table = None

CacheIdle ==
    /\ cache = None
    /\ handler_pc = << >>
    /\ handler_list = << >>
    /\ reads = 0

NameIdle ==
    /\ table_name = << >>
    /\ storage_pc = "idle"

OrderIdle ==
    /\ outcome = << >>
    /\ completed = << >>
    /\ collected = NewResults(0)

SideIdle == TableIdle /\ CacheIdle /\ NameIdle /\ OrderIdle

Init == VerifyInit /\ ProbeIdle /\ DedupIdle /\ EvalIdle /\ SideIdle

Next ==
    \/ Start
          /\ UNCHANGED <<config, probe_vars, pure_vars>>
    \/ \E i \in Tasks : Acquire(i)
          /\ UNCHANGED <<config, probe_vars, pure_vars>>
    \/ \E i \in Tasks : Probe(i)
          /\ UNCHANGED <<config, probe_vars, pure_vars>>
    \/ \E i \in Tasks : ProbeError(i)
          /\ UNCHANGED <<config, probe_vars, pure_vars>>
    \/ \E i \in Tasks : Find(i)
          /\ UNCHANGED <<config, probe_vars, pure_vars>>
    \/ \E i \in Tasks : FindError(i)
          /\ UNCHANGED <<config, probe_vars, pure_vars>>
    \/ \E i \in Tasks : Upsert(i)
          /\ UNCHANGED <<config, probe_vars, pure_vars>>
    \/ \E i \in Tasks : UpsertError(i)
          /\ UNCHANGED <<config, probe_vars, pure_vars>>
    \/ \E i \in Tasks : Panic(i)
          /\ UNCHANGED <<config, probe_vars, pure_vars>>
    \/ JoinNext
          /\ UNCHANGED <<config, probe_vars, pure_vars>>
    \/ JoinError
          /\ UNCHANGED <<config, probe_vars, pure_vars>>
    \/ Return
          /\ UNCHANGED <<config, probe_vars, pure_vars>>

Spec == Init /\ [][Next]_vars

----------------------------------------------------------------------------
\* service/quality.rs: run_tests and send_with_retries, step by step

Slots == DOMAIN slot_pc

\* run_tests, lines 216-238: the client is built, one send_with_retries
\* future per (test_url, test) is pushed, the results start empty.  Each
\* future starts with attempt = 0 and backoff = 500 ms (n = 0).
RunTestsStart ==
    /\ probe_pc = "start"
    /\ probe_pc' = "running"
    /\ slot_pc' = [i \in 1..total_tests(config) |-> "request"]
    /\ attempt' = [i \in 1..total_tests(config) |-> 0]
    /\ backoff' = [i \in 1..total_tests(config) |-> 0]
    /\ requests' = [i \in 1..total_tests(config) |-> 0]
    /\ last_response' = [i \in 1..total_tests(config) |-> "none"]
    /\ sleeps' = [i \in 1..total_tests(config) |-> << >>]
    /\ results' = NewResults(total_tests(config))
    /\ UNCHANGED <<config, verify_vars, pure_vars>>

\* reqwest::Proxy::all(..)? or the client builder's build()? fails.
RunTestsBuildError ==
    /\ probe_pc = "start"
    /\ probe_pc' = "failed"
    /\ UNCHANGED <<config, verify_vars, pure_vars, slot_pc, attempt, backoff,
                   requests,
                   last_response, sleeps, results>>

\* max_retries and attempt are u8.
U8Max == 255

\* attempt += 1 on a u8: past 255 a debug build panics, a release build
\* wraps to 0.
AttemptPlusOne(a) == (a + 1) % (U8Max + 1)
AfterIncrement(a) ==
    IF a = U8Max THEN {"request", "panicked"} ELSE {"request"}

\* The Duration 500 ms * 2^n in milliseconds.
DurationMs(n) == 500 * 2^n

\* Duration holds its seconds in a u64, and Duration * u32 panics on
\* overflow ("overflow when multiplying duration by scalar") in every
\* build: 500 ms * 2^64 is 2^63 s, the largest backoff that can be
\* held, and doubling it panics.
DurationMaxExp == 64

\* Mutant: the last failed try of a future makes run_tests return Err.
FailedTryAborts(i, kind) ==
    /\ probe_pc = "running"
    /\ slot_pc[i] = "request"
    /\ attempt[i] <= config.max_retries
    /\ requests' = [requests EXCEPT ![i] = @ + 1]
    /\ last_response' = [last_response EXCEPT ![i] = kind]
    /\ IF attempt[i] < config.max_retries
       THEN /\ slot_pc' = [slot_pc EXCEPT ![i] = "sleeping"]
            /\ sleeps' = [sleeps EXCEPT ![i] = Append(@, backoff[i])]
            /\ UNCHANGED <<attempt, results, probe_pc>>
       ELSE /\ attempt' = [attempt EXCEPT ![i] = AttemptPlusOne(@)]
            /\ slot_pc' = [slot_pc EXCEPT ![i] = "done"]
            /\ probe_pc' = "failed"
            /\ UNCHANGED <<results, sleeps>>
    /\ UNCHANGED <<config, verify_vars, pure_vars, backoff>>

\* The failed try of future i, common to the Err(e) arm and the non-2xx
\* arm: with tries left the future sleeps backoff; on the last try
\* attempt += 1 ends the loop and the future returns None, which run_tests
\* records as a failure.
FailedTry(i, kind) ==
    /\ probe_pc = "running"
    /\ slot_pc[i] = "request"
    /\ attempt[i] <= config.max_retries
    /\ requests' = [requests EXCEPT ![i] = @ + 1]
    /\ last_response' = [last_response EXCEPT ![i] = kind]
    /\ IF attempt[i] < config.max_retries
       THEN /\ slot_pc' = [slot_pc EXCEPT ![i] = "sleeping"]
            /\ sleeps' = [sleeps EXCEPT ![i] = Append(@, backoff[i])]
            /\ UNCHANGED <<attempt, results>>
       ELSE /\ attempt' = [attempt EXCEPT ![i] = AttemptPlusOne(@)]
            /\ \E pc \in AfterIncrement(attempt[i]) :
                 IF pc = "request" /\ attempt'[i] > config.max_retries
                 THEN /\ slot_pc' = [slot_pc EXCEPT ![i] = "done"]
                      /\ results' = record_failure(results)
                 ELSE /\ slot_pc' = [slot_pc EXCEPT ![i] = pc]
                      /\ UNCHANGED results
            /\ UNCHANGED sleeps
    /\ UNCHANGED <<config, verify_vars, pure_vars, backoff, probe_pc>>

\* client.get(url).send() is Err(e): connection error or timeout.
SendErr(i) == FailedTry(i, "err")

\* Mutant: any response, whatever its status, is taken for a success.
SendNon2xxAsOk(i) ==
    /\ probe_pc = "running"
    /\ slot_pc[i] = "request"
    /\ attempt[i] <= config.max_retries
    /\ requests' = [requests EXCEPT ![i] = @ + 1]
    /\ last_response' = [last_response EXCEPT ![i] = "non2xx"]
    /\ slot_pc' = [slot_pc EXCEPT ![i] = "done"]
    /\ \E elapsed \in Latencies : results' = record_success(results, elapsed)
    /\ UNCHANGED <<config, verify_vars, pure_vars, attempt, backoff, sleeps,
                   probe_pc>>

\* The response arrived with a status outside 2xx.
SendNon2xx(i) == FailedTry(i, "non2xx")

\* The response is 2xx: return Some(round2(elapsed)); run_tests records
\* the success.
SendOk(i) ==
    /\ probe_pc = "running"
    /\ slot_pc[i] = "request"
    /\ attempt[i] <= config.max_retries
    /\ requests' = [requests EXCEPT ![i] = @ + 1]
    /\ last_response' = [last_response EXCEPT ![i] = "2xx"]
    /\ slot_pc' = [slot_pc EXCEPT ![i] = "done"]
    /\ \E elapsed \in Latencies : results' = record_success(results, elapsed)
    /\ UNCHANGED <<config, verify_vars, pure_vars, attempt, backoff, sleeps,
                   probe_pc>>

\* Mutant: the backoff is not doubled.
WakeNoDouble(i) ==
    /\ probe_pc = "running"
    /\ slot_pc[i] = "sleeping"
    /\ attempt' = [attempt EXCEPT ![i] = AttemptPlusOne(@)]
    /\ \E pc \in AfterIncrement(attempt[i]) :
          slot_pc' = [slot_pc EXCEPT ![i] = pc]
    /\ UNCHANGED <<config, verify_vars, pure_vars, backoff, requests,
                   last_response,
                   sleeps, results, probe_pc>>

\* sleep(backoff) is over: backoff *= 2, which panics when the Duration
\* overflows; attempt += 1, next iteration.
Wake(i) ==
    /\ probe_pc = "running"
    /\ slot_pc[i] = "sleeping"
    /\ IF backoff[i] >= DurationMaxExp
       THEN /\ slot_pc' = [slot_pc EXCEPT ![i] = "panicked"]
            /\ UNCHANGED <<backoff, attempt>>
       ELSE /\ backoff' = [backoff EXCEPT ![i] = @ + 1]
            /\ attempt' = [attempt EXCEPT ![i] = AttemptPlusOne(@)]
            /\ \E pc \in AfterIncrement(attempt[i]) :
                  slot_pc' = [slot_pc EXCEPT ![i] = pc]
    /\ UNCHANGED <<config, verify_vars, pure_vars, requests, last_response,
                   sleeps,
                   results, probe_pc>>

\* Mutant: run_tests returns after the first future that completed.
RunTestsReturnEarly ==
    /\ probe_pc = "running"
    /\ \E i \in Slots : slot_pc[i] = "done"
    /\ probe_pc' = "returned"
    /\ UNCHANGED <<config, verify_vars, pure_vars, slot_pc, attempt, backoff,
                   requests,
                   last_response, sleeps, results>>

\* futs.next() is None: Ok(results).
RunTestsReturn ==
    /\ probe_pc = "running"
    /\ \A i \in Slots : slot_pc[i] = "done"
    /\ probe_pc' = "returned"
    /\ UNCHANGED <<config, verify_vars, pure_vars, slot_pc, attempt, backoff,
                   requests,
                   last_response, sleeps, results>>

\* The QualityConfig values of SpecProbe.
ProbeConfigs ==
    {[QualityConfig(0, u) EXCEPT !.test_count = t, !.max_retries = m] :
        t \in 1..MaxSlots, m \in 0..MaxRetries, u \in 0..MaxSlots}

VerifyIdle ==
    /\ basics = << >>
    /\ semaphore = 0
    /\ store = [c \in Candidates |-> None]
    /\ main_pc = "idle"
    /\ joined = 0
    /\ ret = None
    /\ task_pc = << >>
    /\ permits = 0
    /\ success_count = 0
    /\ result = << >>
    /\ now = 1
    /\ store_at_start = << >>
    /\ upsert_calls = {}
    /\ written = {}

InitProbe ==
    /\ config \in {c \in ProbeConfigs : total_tests(c) <= MaxSlots}
    /\ slot_pc = << >>
    /\ attempt = << >>
    /\ backoff = << >>
    /\ requests = << >>
    /\ last_response = << >>
    /\ sleeps = << >>
    /\ results = NewResults(0)
    /\ probe_pc = "start"
    /\ VerifyIdle
    /\ DedupIdle
    /\ EvalIdle
    /\ SideIdle

NextProbe ==
    \/ RunTestsStart
    \/ RunTestsBuildError
    \/ \E i \in Slots : SendErr(i)
    \/ \E i \in Slots : SendNon2xx(i)
    \/ \E i \in Slots : SendOk(i)
    \/ \E i \in Slots : Wake(i)
    \/ RunTestsReturn

SpecProbe == InitProbe /\ [][NextProbe]_vars

----------------------------------------------------------------------------
\* common/utils.rs: dedup_proxies called on a fetched batch, then again on
\* what it returned (SpecDedup)

\* ProxyBasic values whose ip and port are Strings of any content: two
\* plain candidates, and two whose ip or port holds a ':'.
DedupCandidates ==
    {ProxyBasic("10.0.0.1", "80"), ProxyBasic("10.0.0.2", "80"),
     ProxyBasic("10.0.0.1:80", "80"), ProxyBasic("10.0.0.1", "80:80")}

\* The argument of the next call: the fetched batch, then the last output.
DedupArg == IF deduped = << >> THEN fetched ELSE deduped[Len(deduped)]

\* One call of dedup_proxies.
DedupCall ==
    /\ Len(deduped) < MaxCalls
    /\ deduped' = Append(deduped, dedup_proxies(DedupArg))
    /\ UNCHANGED <<fetched, config, verify_vars, probe_vars, eval_vars,
                   side_vars>>

InitDedup ==
    /\ fetched \in UNION {[1..n -> DedupCandidates] : n \in 0..MaxBatch}
    /\ deduped = << >>
    /\ config = VerifyConfig
    /\ VerifyIdle
    /\ ProbeIdle
    /\ EvalIdle
    /\ SideIdle

NextDedup == DedupCall

SpecDedup == InitDedup /\ [][NextDedup]_vars

----------------------------------------------------------------------------
\* service/quality.rs: one evaluate call on one candidate, the store
\* holding what earlier operations left for it (SpecEvaluate)

\* The candidate evaluate is called on.
EvalProxy == ProxyBasic("10.0.0.1", "80")

\* Latencies send_with_retries can return: round2(elapsed), which is 0.00
\* for an exchange shorter than 5 ms.
EvalLatencies == {0} \cup Latencies

\* Weight triples of a QualityConfig, each weight within 0.0 - 1.0: the
\* default, and two that do not sum to 1.0.
EvalWeights ==
    {DefaultWeights,
     [speed_weight |-> 10, success_weight |-> 10, stability_weight |-> 10],
     [speed_weight |-> 0, success_weight |-> 0, stability_weight |-> 0]}

\* The QualityConfig values of SpecEvaluate: the three verify levels over
\* 0..MaxTotal test_urls, within MaxTotal tests.
EvalConfigs ==
    {c \in {[QualityConfig(l, u) EXCEPT
                 !.speed_weight = w.speed_weight,
                 !.success_weight = w.success_weight,
                 !.stability_weight = w.stability_weight] :
             l \in 0..2, u \in 0..MaxTotal, w \in EvalWeights} :
        total_tests(c) <= MaxTotal}

\* Rows earlier verification passes can have written for the candidate
\* (upsert_quality_proxy is only called with success_rate > 0).
EvalPriors ==
    {[PriorRow EXCEPT !.success_rate = Some(r), !.stability = Some(st)] :
        r \in {1, 80, 100}, st \in {0, 6000, 10000}}

\* The stores evaluate can start from: no row for the candidate, or a row
\* of an earlier pass.
EvalStores ==
    {[c \in Candidates |-> IF c = EvalProxy THEN row ELSE None] :
        row \in {None} \cup {Some(p) : p \in EvalPriors}}

\* The QualityTestResults run_tests can return under cfg.
EvalResults(cfg) ==
    {Collect(NewResults(total_tests(cfg)), outs) :
        outs \in [1..total_tests(cfg) ->
                    {None} \cup {Some(l) : l \in EvalLatencies}]}

\* The variables of verify_all that evaluate and the store calls leave alone.
verify_rest == <<basics, main_pc, joined, ret, task_pc, permits, semaphore,
                 success_count, result, now, store_at_start, upsert_calls,
                 written>>

\* insert_basic_proxy(EvalProxy) before the evaluation (the fetch stage
\* storing the candidate it found).
EvalInsertBasic ==
    /\ eval_pc = "start"
    /\ store' = insert_basic_proxy(store, EvalProxy, now)
    /\ UNCHANGED <<config, verify_rest, probe_vars, dedup_vars, eval_vars,
                   side_vars>>

\* evaluate, lines 176-181: run_tests returned Ok.
EvalRunTests ==
    /\ eval_pc = "start"
    /\ \E r \in EvalResults(config) :
          /\ test_results' = r
          /\ updated' = ResultOfTests(r, now)
    /\ eval_pc' = "tested"
    /\ UNCHANGED <<config, store, verify_rest, probe_vars, dedup_vars,
                   side_vars>>

\* run_tests returned Err: evaluate returns it.
EvalRunTestsError ==
    /\ eval_pc = "start"
    /\ eval_pc' = "failed"
    /\ UNCHANGED <<config, store, verify_rest, probe_vars, dedup_vars,
                   side_vars, test_results, updated>>

\* evaluate, lines 183-195: find_proxy_by_ip_port returned Ok; stability,
\* compute_score, Ok(Proxy::from_parts(..)).
EvalFind ==
    /\ eval_pc = "tested"
    /\ LET old == find_proxy_by_ip_port(store, EvalProxy.ip, EvalProxy.port)
       IN  updated' = ResultWithScore(updated, old, config)
    /\ eval_pc' = "returned"
    /\ UNCHANGED <<config, store, verify_rest, probe_vars, dedup_vars,
                   side_vars, test_results>>

\* find_proxy_by_ip_port returned Err: evaluate returns it.
EvalFindError ==
    /\ eval_pc = "tested"
    /\ eval_pc' = "failed"
    /\ UNCHANGED <<config, store, verify_rest, probe_vars, dedup_vars,
                   side_vars, test_results, updated>>

InitEvaluate ==
    /\ config \in EvalConfigs
    /\ store \in EvalStores
    /\ eval_pc = "start"
    /\ test_results = NewResults(0)
    /\ updated = DefaultResult
    /\ basics = << >>
    /\ semaphore = 0
    /\ main_pc = "idle"
    /\ joined = 0
    /\ ret = None
    /\ task_pc = << >>
    /\ permits = 0
    /\ success_count = 0
    /\ result = << >>
    /\ now = 1
    /\ store_at_start = << >>
    /\ upsert_calls = {}
    /\ written = {}
    /\ ProbeIdle
    /\ DedupIdle
    /\ SideIdle

NextEvaluate ==
    \/ EvalInsertBasic
    \/ EvalRunTests
    \/ EvalRunTestsError
    \/ EvalFind
    \/ EvalFindError

SpecEvaluate == InitEvaluate /\ [][NextEvaluate]_vars

----------------------------------------------------------------------------
\* db/sqlite.rs: the table as the rows the statements insert and update,
\* under sequences of insert_basic_proxy calls and verification passes
\* (SpecStore)

\* The indexes of the rows WHERE ip = ? AND port = ?
Matches(tbl, ip, port) ==
    {k \in DOMAIN tbl : tbl[k].ip = ip /\ tbl[k].port = port}

Lowest(S) == CHOOSE k \in S : \A j \in S : k <= j

\* find_proxy_by_ip_port: SELECT * .. WHERE ip = ? AND port = ?,
\* fetch_optional (the first row, if any).
SelectByIpPort(tbl, ip, port) ==
    IF Matches(tbl, ip, port) = {} THEN None
    ELSE Some(tbl[Lowest(Matches(tbl, ip, port))])

\* Mutant: INSERT OR REPLACE, the row of the key is recreated.
InsertOrReplace(tbl, proxy, at) ==
    IF Matches(tbl, proxy.ip, proxy.port) = {}
    THEN Append(tbl, from_parts(proxy, BasicRow(at)))
    ELSE [k \in DOMAIN tbl |->
            IF k \in Matches(tbl, proxy.ip, proxy.port)
            THEN from_parts(proxy, BasicRow(at)) ELSE tbl[k]]

\* insert_basic_proxy: INSERT OR IGNORE INTO t (ip, port) VALUES (?, ?)
\* under UNIQUE(ip, port); the other columns take their defaults.
InsertOrIgnore(tbl, proxy, at) ==
    IF Matches(tbl, proxy.ip, proxy.port) = {}
    THEN Append(tbl, from_parts(proxy, BasicRow(at)))
    ELSE tbl

\* Mutant: a plain INSERT without the ON CONFLICT clause or the UNIQUE
\* constraint.
InsertAlways(tbl, p) == Append(tbl, p)

\* upsert_quality_proxy: INSERT .. ON CONFLICT(ip, port) DO UPDATE SET the
\* five quality columns from the excluded row.
InsertOnConflictUpdate(tbl, p) ==
    IF Matches(tbl, p.ip, p.port) = {}
    THEN Append(tbl, p)
    ELSE [k \in DOMAIN tbl |->
            IF k \in Matches(tbl, p.ip, p.port)
            THEN [tbl[k] EXCEPT !.speed = p.speed,
                                !.success_rate = p.success_rate,
                                !.stability = p.stability,
                                !.score = p.score,
                                !.last_checked = p.last_checked]
            ELSE tbl[k]]

\* The configuration of the passes of SpecStore: level 0 (Fast), one
\* test_url.
StoreConfig == QualityConfig(0, 1)

\* The variables of verify_all other than the clock.
verify_but_now == <<basics, main_pc, joined, ret, task_pc, permits,
                    semaphore, success_count, result, store, store_at_start,
                    upsert_calls, written>>

StoreFrame ==
    UNCHANGED <<config, verify_but_now, probe_vars, dedup_vars, eval_vars,
                cache_vars, name_vars, order_vars, proxies_table>>

\* get_storage().insert_basic_proxy(c) returned Ok.
StoreInsertBasic(c) ==
    /\ now <= MaxOps
    /\ table' = InsertOrIgnore(table, c, now)
    /\ last' = [op |-> "insert", basic |-> c, proxy |-> None,
                before |-> table]
    /\ now' = now + 1
    /\ StoreFrame

\* One verification pass over c, as verify_single runs it: evaluate (the
\* tests, the find, stability and score), then the upsert when
\* success_rate > 0.
StoreVerifyPass(c) ==
    /\ now <= MaxOps
    /\ \E r \in RunTestsResults(config) :
          LET old == SelectByIpPort(table, c.ip, c.port)
              res == ResultWithScore(ResultOfTests(r, now), old, config)
              p == from_parts(c, res)
          IN  IF unwrap_or(p.success_rate, 0) > 0
              THEN /\ table' = InsertOnConflictUpdate(table, p)
                   /\ last' = [op |-> "upsert", basic |-> c,
                               proxy |-> Some(p), before |-> table]
              ELSE /\ table' = table
                   /\ last' = [op |-> "rejected", basic |-> c,
                               proxy |-> Some(p), before |-> table]
    /\ now' = now + 1
    /\ StoreFrame

\* A pass over c that ended in an Err (run_tests, the find or the upsert
\* failed): nothing is written.
StoreVerifyError(c) ==
    /\ now <= MaxOps
    /\ table' = table
    /\ last' = [op |-> "error", basic |-> c, proxy |-> None,
                before |-> table]
    /\ now' = now + 1
    /\ StoreFrame

InitStore ==
    /\ config = StoreConfig
    /\ VerifyIdle
    /\ ProbeIdle
    /\ DedupIdle
    /\ EvalIdle
    /\ SideIdle

NextStore ==
    \/ \E c \in Candidates : StoreInsertBasic(c)
    \/ \E c \in Candidates : StoreVerifyPass(c)
    \/ \E c \in Candidates : StoreVerifyError(c)

SpecStore == InitStore /\ [][NextStore]_vars

----------------------------------------------------------------------------
\* web/hoops/cache.rs and common/cache.rs: the entry "proxies" of CACHE
\* under requests through cache_proxies, store writes and the operations of
\* GlobalCache (SpecCache)

Handlers == 1..MaxHandlers

\* The candidate the store writes of SpecCache are about.
CacheCandidates == {EvalProxy}

\* list_all_proxies: SELECT * FROM t ORDER BY score DESC; rows of equal
\* score come in any order.
SelectAllByScore(tbl) ==
    {[k \in DOMAIN tbl |-> tbl[f[k]]] :
        f \in {g \in [DOMAIN tbl -> DOMAIN tbl] :
                 /\ \A a, b \in DOMAIN tbl : g[a] = g[b] => a = b
                 /\ \A a, b \in DOMAIN tbl :
                       a < b => unwrap_or(tbl[g[a]].score, 0)
                                  >= unwrap_or(tbl[g[b]].score, 0)}}

CacheFrame ==
    UNCHANGED <<config, verify_vars, probe_vars, dedup_vars, eval_vars,
                table_vars, name_vars, order_vars>>

\* Mutant: the handler reloads from the store whether or not the entry is
\* present.
CacheGetAlwaysMiss(h) ==
    /\ handler_pc[h] = "start"
    /\ handler_pc' = [handler_pc EXCEPT ![h] = "list"]
    /\ UNCHANGED <<cache, handler_list, reads>>
    /\ CacheFrame

\* cache_proxies: match CACHE.get(&"proxies"); Some ends the handler, None
\* goes on to load.
CacheGet(h) ==
    /\ handler_pc[h] = "start"
    /\ handler_pc' = [handler_pc EXCEPT
                        ![h] = IF IsSome(cache) THEN "done" ELSE "list"]
    /\ UNCHANGED <<cache, handler_list, reads>>
    /\ CacheFrame

\* let proxies = get_storage().list_all_proxies().await.unwrap(), Ok.
CacheList(h) ==
    /\ handler_pc[h] = "list"
    /\ \E l \in SelectAllByScore(table) :
          handler_list' = [handler_list EXCEPT ![h] = l]
    /\ reads' = reads + 1
    /\ handler_pc' = [handler_pc EXCEPT ![h] = "set"]
    /\ UNCHANGED cache
    /\ CacheFrame

\* list_all_proxies returned Err: the unwrap panics, nothing is set.
CacheListError(h) ==
    /\ handler_pc[h] = "list"
    /\ reads' = reads + 1
    /\ handler_pc' = [handler_pc EXCEPT ![h] = "panicked"]
    /\ UNCHANGED <<cache, handler_list>>
    /\ CacheFrame

\* CACHE.set("proxies", proxies.clone())
CacheSet(h) ==
    /\ handler_pc[h] = "set"
    /\ cache' = Some(handler_list[h])
    /\ handler_pc' = [handler_pc EXCEPT ![h] = "done"]
    /\ UNCHANGED <<handler_list, reads>>
    /\ CacheFrame

\* GlobalCache::remove(&"proxies") and GlobalCache::clear(): the entry is
\* gone.  Nothing in the repository calls them; they are the manual
\* invalidation the type offers.
CacheRemove ==
    /\ IsSome(cache)
    /\ cache' = None
    /\ UNCHANGED <<handler_pc, handler_list, reads>>
    /\ CacheFrame

InitCache ==
    /\ config = StoreConfig
    /\ VerifyIdle
    /\ ProbeIdle
    /\ DedupIdle
    /\ EvalIdle
    /\ TableIdle
    /\ NameIdle
    /\ OrderIdle
    /\ cache = None
    /\ handler_pc = [h \in Handlers |-> "start"]
    /\ handler_list = [h \in Handlers |-> << >>]
    /\ reads = 0

NextCache ==
    \/ \E h \in Handlers : CacheGet(h)
    \/ \E h \in Handlers : CacheList(h)
    \/ \E h \in Handlers : CacheListError(h)
    \/ \E h \in Handlers : CacheSet(h)
    \/ CacheRemove
    \/ \E c \in CacheCandidates : StoreInsertBasic(c)
    \/ \E c \in CacheCandidates : StoreVerifyPass(c)

SpecCache == InitCache /\ [][NextCache]_vars

----------------------------------------------------------------------------
\* common/utils.rs validate_table_name and the construction of the storage
\* backend (SpecTable)

\* The characters a table name is drawn from: two ASCII letters, an ASCII
\* digit, the underscore, a hyphen and the non-ASCII letter U+00E9.
Chars == {"a", "Z", "7", "_", "-", "U+00E9"}

is_ascii_alphabetic(c) == c \in {"a", "Z"}
is_ascii_digit(c) == c \in {"7"}
is_ascii_alphanumeric(c) == is_ascii_alphabetic(c) \/ is_ascii_digit(c)

\* The values of db.table_name.
TableNames ==
    UNION {[1..n -> Chars] : n \in 0..MaxName}

\* Mutant: the first character is not looked at.
validate_table_name_chars_only(name) ==
    \A k \in DOMAIN name : is_ascii_alphanumeric(name[k]) \/ name[k] = "_"

\* name.chars().all(|c| c.is_ascii_alphanumeric() || c == '_')
\*   && name.chars().next().map(|c| c.is_ascii_alphabetic()).unwrap_or(false)
validate_table_name(name) ==
    /\ \A k \in DOMAIN name : is_ascii_alphanumeric(name[k]) \/ name[k] = "_"
    /\ IF name = << >> THEN FALSE ELSE is_ascii_alphabetic(name[1])

TableFrame ==
    UNCHANGED <<config, verify_vars, probe_vars, dedup_vars, eval_vars,
                table_vars, cache_vars, order_vars, table_name>>

\* db::init -> StorageBackend::new -> SqliteStorage::new: the pool
\* connects.
TableConnect ==
    /\ storage_pc = "new"
    /\ storage_pc' = "connected"
    /\ TableFrame

\* connect(..).await? returned Err: new returns it.
TableConnectError ==
    /\ storage_pc = "new"
    /\ storage_pc' = "connect_err"
    /\ TableFrame

\* create_table: panic on a name validate_table_name rejects, before the
\* CREATE TABLE IF NOT EXISTS statement is sent; otherwise the statement
\* runs.
TableCreate ==
    /\ storage_pc = "connected"
    /\ storage_pc' = IF ~validate_table_name(table_name) THEN "panicked"
                     ELSE "created"
    /\ TableFrame

\* The CREATE TABLE statement returned Err: new returns it.
TableCreateError ==
    /\ storage_pc = "connected"
    /\ validate_table_name(table_name)
    /\ storage_pc' = "create_err"
    /\ TableFrame

\* init: set_global_storage(storage) after new returned Ok.
TableSetGlobal ==
    /\ storage_pc = "created"
    /\ storage_pc' = "ready"
    /\ TableFrame

\* get_storage() succeeds only once the global storage is set: the store
\* calls of a caller and of a verification pass.
TableInsertBasic ==
    /\ storage_pc = "ready"
    /\ StoreInsertBasic(EvalProxy)

TableVerifyPass ==
    /\ storage_pc = "ready"
    /\ StoreVerifyPass(EvalProxy)

InitTable ==
    /\ config = StoreConfig
    /\ VerifyIdle
    /\ ProbeIdle
    /\ DedupIdle
    /\ EvalIdle
    /\ TableIdle
    /\ CacheIdle
    /\ OrderIdle
    /\ table_name \in TableNames
    /\ storage_pc = "new"

NextTable ==
    \/ TableConnect
    \/ TableConnectError
    \/ TableCreate
    \/ TableCreateError
    \/ TableSetGlobal
    \/ TableInsertBasic
    \/ TableVerifyPass

SpecTable == InitTable /\ [][NextTable]_vars

----------------------------------------------------------------------------
\* service/quality.rs run_tests: the collecting loop over FuturesUnordered,
\* which yields the attempts in the order they complete (SpecOrder)

Attempts == DOMAIN outcome

OrderFrame ==
    UNCHANGED <<config, verify_vars, probe_vars, dedup_vars, eval_vars,
                table_vars, cache_vars, name_vars, outcome>>

\* while let Some(res) = futs.next().await: attempt k is the next to
\* complete; Some(duration) is recorded as a success, None as a failure.
OrderComplete(k) ==
    /\ \A j \in DOMAIN completed : completed[j] # k
    /\ completed' = Append(completed, k)
    /\ collected' = IF IsSome(outcome[k])
                    THEN record_success(collected, outcome[k][1])
                    ELSE record_failure(collected)
    /\ OrderFrame

\* The futures pushed by the two loops, each with the result it will
\* resolve to, and QualityTestResults::new(total_tests).
InitOrder ==
    /\ config = StoreConfig
    /\ VerifyIdle
    /\ ProbeIdle
    /\ DedupIdle
    /\ EvalIdle
    /\ TableIdle
    /\ CacheIdle
    /\ NameIdle
    /\ outcome \in UNION {[1..n -> SlotOutcomes] : n \in 1..MaxAttempts}
    /\ completed = << >>
    /\ collected = NewResults(Len(outcome))

NextOrder == \E k \in Attempts : OrderComplete(k)

SpecOrder == InitOrder /\ [][NextOrder]_vars

----------------------------------------------------------------------------
\* Properties of verify_all (checked under Spec)

Holders == {i \in Tasks : HoldsPermit(i)}
Finished == {"Verified", "Rejected", "Errored"}
ReturnedOk == main_pc = "returned" /\ ret # None /\ ret[1].ok
ReturnedErr == main_pc = "returned" /\ ret # None /\ ~ret[1].ok
NoPanic == \A i \in Tasks : task_pc[i] # "Panicked"
VerifiedTasks == {i \in Tasks : task_pc[i] = "Verified"}

\* C1: with concurrency_limit = semaphore >= 1, at most `semaphore` tasks
\* are between the acquisition of their permit and their end, whatever the
\* size of the batch.
C1_ConcurrencyBound ==
    semaphore >= 1 => Cardinality(Holders) <= semaphore

\* C1 witness: a batch larger than the limit with the limit exhausted and a
\* task still waiting for a permit.
C1_Witness ==
    /\ semaphore >= 1
    /\ Len(basics) > semaphore
    /\ Cardinality(Holders) = semaphore
    /\ \E i \in Tasks : task_pc[i] = "Pending"

\* C2: when no task panicked, verify_all has returned only if every task
\* is in a terminal state: none is Pending, probing or writing the store.
C2_ReturnAfterAllFinished ==
    (main_pc = "returned" /\ NoPanic) =>
        /\ Len(task_pc) = Len(basics)
        /\ \A i \in Tasks : task_pc[i] \in Finished

\* C2 witness: verify_all returned over three tasks, one of them having
\* written the store.
C2_Witness ==
    /\ ReturnedOk
    /\ Len(basics) = 3
    /\ \E i \in Tasks : task_pc[i] = "Verified"

\* C3 (as claimed): when verify_all returns the JoinError of a panicked
\* task, every other task of the batch is in a terminal state.
C3_ErrorAfterAllFinished ==
    ReturnedErr => \A i \in Tasks : task_pc[i] \in Terminal

\* C4: a Proxy with success_rate 0 is never passed to
\* upsert_quality_proxy (only a task whose rate is > 0 reaches the call),
\* and the row of a rejected candidate is, when its task has finished, the
\* row that was there when the task started.
C4_RejectedNotWritten ==
    /\ \A p \in upsert_calls : unwrap_or(p.success_rate, 0) > 0
    /\ \A i \in Tasks :
          /\ task_pc[i] = "Upserting" => unwrap_or(result[i].success_rate, 0) > 0
          /\ task_pc[i] = "Rejected" =>
                /\ store[basics[i]] = store_at_start[i][1]
                /\ basics[i] \notin written
                /\ \A p \in upsert_calls : Key(p.ip, p.port) # basics[i]

\* C4 witness: a rejected candidate that had a row before its task started.
C4_Witness ==
    \E i \in Tasks :
        /\ task_pc[i] = "Rejected"
        /\ IsSome(store_at_start[i])
        /\ IsSome(store_at_start[i][1])

\* C5: the value verify_all returns is the number of candidates whose
\* upsert succeeded; those are exactly the Verified ones, each was passed
\* with a success_rate > 0, and its row is the Proxy that was passed.
C5_ReturnCountsWritten ==
    ReturnedOk =>
        /\ ret[1].value = Cardinality(written)
        /\ \A i \in Tasks : task_pc[i] = "Verified" <=> basics[i] \in written
        /\ \A k \in written :
              \E p \in upsert_calls :
                  /\ Key(p.ip, p.port) = k
                  /\ unwrap_or(p.success_rate, 0) > 0
                  /\ store[k] = Some(RowOf(p))

\* C5 witness: a returned batch with a written, a rejected and an errored
\* candidate.
C5_Witness ==
    /\ ReturnedOk
    /\ ret[1].value = 1
    /\ \E i, j \in Tasks : task_pc[i] = "Rejected" /\ task_pc[j] = "Errored"

\* C6: a storage error ends only the task it happens in: the step changes
\* no other task, neither the counter, the store nor the caller; and when
\* no task panicked verify_all returns Ok with the number of Verified
\* tasks, every task being in a terminal state.
C6_StorageErrorStep ==
    \A i \in Tasks :
        (task_pc[i] \in {"Finding", "Upserting"} /\ task_pc'[i] = "Errored") =>
            /\ \A j \in Tasks \ {i} : task_pc'[j] = task_pc[j]
            /\ success_count' = success_count
            /\ store' = store
            /\ written' = written
            /\ main_pc' = main_pc /\ joined' = joined /\ ret' = ret

----------------------------------------------------------------------------
\* Properties of run_tests and send_with_retries (checked under SpecProbe)

RECURSIVE Pow2(_)
Pow2(k) == IF k = 0 THEN 1 ELSE 2 * Pow2(k - 1)

\* The delays 500 ms, 1 s, 2 s, ... of m retries.
BackoffSchedule(m) == [k \in 1..m |-> 500 * Pow2(k - 1)]

\* The delays future i has slept, in milliseconds.
SleepsMs(i) == [k \in 1..Len(sleeps[i]) |-> DurationMs(sleeps[i][k])]

FailedSlots == {i \in Slots : slot_pc[i] = "done" /\ last_response[i] # "2xx"}
SucceededSlots == {i \in Slots : last_response[i] = "2xx"}

\* C7: a future whose tries all failed has sent max_retries + 1 requests
\* and slept max_retries times, the k-th sleep lasting 500 ms * 2^(k-1); it
\* never sleeps after its last try; it resolves to None, which run_tests
\* counts as a failure.
C7_RetryBackoff ==
    /\ \A i \in Slots :
          /\ slot_pc[i] = "sleeping" => attempt[i] < config.max_retries
          /\ Len(sleeps[i]) <= config.max_retries
          /\ SleepsMs(i) = SubSeq(BackoffSchedule(config.max_retries), 1,
                                  Len(sleeps[i]))
          /\ i \in FailedSlots =>
                /\ requests[i] = config.max_retries + 1
                /\ SleepsMs(i) = BackoffSchedule(config.max_retries)
    /\ probe_pc \in {"running", "returned"} =>
          results.failures = Cardinality(FailedSlots)

\* C7 witness: a future that failed for good after three retries.
C7_Witness ==
    /\ config.max_retries = 3
    /\ \E i \in Slots : i \in FailedSlots /\ Len(sleeps[i]) = 3

\* C8: a future is done as soon as a try got a 2xx response and sends
\* nothing afterwards; successes are recorded for 2xx responses only; a
\* non-2xx response with tries left leaves the future retrying.
C8_AfterSuccessStep ==
    \A i \in Slots :
        last_response[i] = "2xx" =>
            /\ requests'[i] = requests[i]
            /\ last_response'[i] = "2xx"
            /\ slot_pc'[i] = "done"

C8_FirstSuccessEnds ==
    /\ [][C8_AfterSuccessStep]_vars
    /\ [](probe_pc \in {"running", "returned"} =>
            /\ Len(results.successes) = Cardinality(SucceededSlots)
            /\ \A i \in Slots :
                  /\ last_response[i] = "2xx" => slot_pc[i] = "done"
                  /\ (last_response[i] = "non2xx"
                      /\ requests[i] <= config.max_retries) =>
                        slot_pc[i] \in {"sleeping", "request"})

\* C8 witness: a future that succeeded on its third try, after a non-2xx
\* response.
C8_Witness ==
    \E i \in Slots :
        /\ last_response[i] = "2xx"
        /\ requests[i] = 3
        /\ \E j \in Slots : j # i /\ last_response[j] = "non2xx"

\* C9: successes.len() + failures never exceeds total, total is
\* |test_urls| * test_count, and the two are equal when run_tests returns.
C9_ResultsWithinTotal ==
    probe_pc \in {"running", "returned"} =>
        /\ results.total = config.n_urls * config.test_count
        /\ Len(results.successes) + results.failures <= results.total
        /\ probe_pc = "returned" =>
              Len(results.successes) + results.failures = results.total

\* C9 witness: run_tests returned over two test_urls, one attempt
\* succeeded and one failed.
C9_Witness ==
    /\ probe_pc = "returned"
    /\ config.n_urls = 2
    /\ results.total = 2
    /\ results.failures = 1
    /\ Len(results.successes) = 1

\* C10: the final failure of a future changes no other future and leaves
\* run_tests running; run_tests fails only before any request is sent; and
\* when every attempt failed run_tests returns with each future having
\* used all its tries, and evaluate computes success_rate 0 from it.
C10_FailureStep ==
    \A i \in Slots :
        (slot_pc[i] = "request" /\ slot_pc'[i] = "done"
         /\ last_response'[i] # "2xx") =>
            /\ probe_pc' = "running"
            /\ \A j \in Slots \ {i} :
                  /\ slot_pc'[j] = slot_pc[j]
                  /\ attempt'[j] = attempt[j]
                  /\ requests'[j] = requests[j]

C10_FailureIsData ==
    /\ [][C10_FailureStep]_vars
    /\ [](probe_pc = "failed" => slot_pc = << >>)
    /\ []((probe_pc = "returned" /\ results.successes = << >>) =>
            /\ success_rate(results) = 0
            /\ \A i \in Slots : requests[i] = config.max_retries + 1
            /\ \A old \in {None, Some(from_parts(ProxyBasic("10.0.0.1", "81"),
                                                 PriorRow))} :
                  ResultWithScore(ResultOfTests(results, now), old,
                                  config).success_rate
                      = Some(0))

\* C10 witness: run_tests returned with both of its attempts failed after
\* retries.
C10_Witness ==
    /\ probe_pc = "returned"
    /\ config.max_retries >= 2
    /\ results.total = 2
    /\ results.failures = 2

\* run_tests returns what Spec's Probe step draws from.
ProbeRefinesRunTestsResults ==
    probe_pc = "returned" => results \in RunTestsResults(config)

----------------------------------------------------------------------------
\* Properties of dedup_proxies (checked under SpecDedup)

\* The indexes of s that hold the first occurrence of their key.
FirstIdx(s) ==
    {i \in DOMAIN s : \A j \in 1..(i - 1) : DedupKey(s[j]) # DedupKey(s[i])}

\* out is the subsequence of s at the indexes FirstIdx(s), in order.
IsFirstOccurrences(out, s) ==
    /\ Len(out) = Cardinality(FirstIdx(s))
    /\ \E f \in [DOMAIN out -> FirstIdx(s)] :
          /\ \A a, b \in DOMAIN out : a < b => f[a] < f[b]
          /\ \A k \in DOMAIN out : out[k] = s[f[k]]

\* C11: dedup_proxies is idempotent (a further call on its output returns
\* that output), its output is never longer than its input, and its output
\* is the subsequence of the input made of the first occurrence of each
\* key, in input order.
C11_DedupFirstOccurrences ==
    deduped # << >> =>
        /\ Len(deduped[1]) <= Len(fetched)
        /\ IsFirstOccurrences(deduped[1], fetched)
        /\ \A k \in 2..Len(deduped) : deduped[k] = deduped[1]

\* C11 witness: a second call has returned, the first call dropped a
\* duplicate and kept at least two candidates.
C11_Witness ==
    /\ Len(deduped) >= 2
    /\ Len(deduped[1]) < Len(fetched)
    /\ Len(deduped[1]) >= 2

\* The (ip, port) pairs of a sequence of candidates.
Pairs(s) == {<<s[i].ip, s[i].port>> : i \in DOMAIN s}

\* C12: two candidates are duplicates exactly when their (ip, port) pairs
\* are equal: the output holds exactly one candidate for each distinct
\* pair of the input, also when an ip or a port holds a ':'.
C12_OnePerPair ==
    deduped # << >> =>
        /\ Pairs(deduped[1]) = Pairs(fetched)
        /\ Len(deduped[1]) = Cardinality(Pairs(fetched))

----------------------------------------------------------------------------
\* Properties of evaluate (checked under SpecEvaluate)

Tested == eval_pc \in {"tested", "returned"}
Returned == eval_pc = "returned"
OldRow == store[EvalProxy]
NewRate == updated.success_rate[1]
NewSpeed == updated.speed[1]

\* C13: success_rate is successes.len() / total rounded to the nearest
\* hundredth, 0 when total is 0, within [0, 1]; total 6 with 3 successes
\* gives 0.5.
C13_SuccessRate ==
    Tested =>
        LET n == Len(test_results.successes)
            total == test_results.total
        IN  /\ total = 0 => NewRate = 0
            /\ total > 0 => 2 * Abs(100 * n - NewRate * total) <= total
            /\ NewRate \in 0..100
            /\ (total = 6 /\ n = 3) => NewRate = 50

\* C13 witness: run_tests returned 3 successes of 6 planned tests and the
\* rate recorded is 0.5.
C13_Witness ==
    /\ Tested
    /\ test_results.total = 6
    /\ Len(test_results.successes) = 3
    /\ updated.success_rate = Some(50)

\* C14: when the store holds a row for the candidate, stability is
\* clamp(old.stability * 0.7 + (1 - |new rate - old.success_rate|) * 0.3,
\* 0, 1); old stability 0.6, old rate 0.8 and new rate 0.5 give 0.63; the
\* result is within [0, 1].
C14_StabilityFromPrior ==
    (Returned /\ IsSome(OldRow)) =>
        LET old == OldRow[1]
            delta == Abs(NewRate - old.success_rate[1])
            tenfold == old.stability[1] * 7 + (10000 - 100 * delta) * 3
        IN  /\ 10 * updated.stability[1] = clamp(tenfold, 0, 100000)
            /\ updated.stability[1] \in 0..10000
            /\ (old.stability = Some(6000) /\ old.success_rate = Some(80)
                /\ NewRate = 50) => updated.stability = Some(6300)

\* C14 witness: evaluate returned over a row of stability 0.6 and
\* success_rate 0.8 with a measured success_rate of 0.5.
C14_Witness ==
    /\ Returned
    /\ IsSome(OldRow)
    /\ OldRow[1].stability = Some(6000)
    /\ OldRow[1].success_rate = Some(80)
    /\ updated.success_rate = Some(50)
    /\ updated.stability = Some(6300)

\* The candidate was never verified: the store has no row for it, or the
\* row insert_basic_proxy created.
NeverVerified == OldRow = None \/ OldRow = Some(BasicRow(now))

\* C15: a candidate evaluated for the first time gets stability 0.5
\* whatever its success_rate, also after an insert_basic_proxy of its
\* (ip, port).
C15_FirstProbeNeutral ==
    (Returned /\ NeverVerified) => updated.stability = Some(5000)

\* The step function of the latency (hundredths of a second), in units of
\* 1/10000: < 0.1 s 1.0, < 0.5 s 0.8, < 1 s 0.5, < 2 s 0.3, else 0.1.
StepScore(latency) ==
    IF latency < 10 THEN 10000
    ELSE IF latency < 50 THEN 8000
    ELSE IF latency < 100 THEN 5000
    ELSE IF latency < 200 THEN 3000
    ELSE 1000

\* C16: the speed sub-score compute_score uses is the step function of
\* the average latency, for every average_speed evaluate produces, 0.00
\* included.
C16_SpeedIsStepFunction ==
    Returned => speed_to_score(NewSpeed) = StepScore(NewSpeed)

\* C17: the speed sub-score is non-increasing in the latency: no latency
\* below the one evaluate measured scores lower than it.
C17_SpeedMonotone ==
    Returned =>
        \A a \in 0..NewSpeed : speed_to_score(a) >= speed_to_score(NewSpeed)

\* The weighted sum of compute_score before the clamp, in units of
\* 1/100000.
WeightedSum ==
    speed_to_score(NewSpeed) * config.speed_weight
    + 100 * NewRate * config.success_weight
    + updated.stability[1] * config.stability_weight

\* C18: score = clamp(speed sub-score * speed_weight + success_rate *
\* success_weight + stability * stability_weight, 0, 1), hence within
\* [0, 1] for every weight triple, also one that does not sum to 1.0.
C18_ScoreClamped ==
    Returned =>
        /\ updated.score = Some(clamp(WeightedSum, 0, 100000))
        /\ updated.score[1] \in 0..100000

\* C18 witness: evaluate returned under weights that sum to 3.0 with a
\* weighted sum above 1.0, and the score is 1.0.
C18_Witness ==
    /\ Returned
    /\ config.speed_weight + config.success_weight
          + config.stability_weight > 10
    /\ WeightedSum > 100000
    /\ updated.score = Some(100000)

\* C19: 3 test_urls, test_count 1, the 3 attempts succeed each within
\* [0, 0.1) s, no row in the store, default weights: success_rate 1.0,
\* stability 0.5, speed sub-score 1.0 and score 0.85.
C19_EndToEnd ==
    (/\ Returned
     /\ config.n_urls = 3
     /\ config.test_count = 1
     /\ Len(test_results.successes) = 3
     /\ \A k \in 1..3 : test_results.successes[k] < 10
     /\ OldRow = None
     /\ config.speed_weight = 4
     /\ config.success_weight = 3
     /\ config.stability_weight = 3) =>
        /\ updated.success_rate = Some(100)
        /\ updated.stability = Some(5000)
        /\ speed_to_score(NewSpeed) = 10000
        /\ updated.score = Some(85000)

----------------------------------------------------------------------------
\* The state machine of a candidate (checked under Spec)

\* Pending, then Probing (evaluate and the conditional upsert: "Probing",
\* "Finding", "Upserting"), then an outcome; a task that panicked has
\* stopped without one.
Stage(pc) ==
    CASE pc = "Pending" -> 0
      [] pc = "Probing" -> 1
      [] pc = "Finding" -> 2
      [] pc = "Upserting" -> 3
      [] OTHER -> 4

UpsertsOf(calls, basic) ==
    {p \in calls : p.ip = basic.ip /\ p.port = basic.port}

C20_Step ==
    \A i \in Tasks :
        /\ Stage(task_pc'[i]) >= Stage(task_pc[i])
        /\ task_pc[i] = "Pending" => task_pc'[i] \in {"Pending", "Probing"}
        /\ task_pc[i] \in Terminal =>
              /\ task_pc'[i] = task_pc[i]
              /\ result'[i] = result[i]
              /\ store'[basics[i]] = store[basics[i]]
              /\ UpsertsOf(upsert_calls', basics[i])
                    = UpsertsOf(upsert_calls, basics[i])
        /\ (task_pc[i] # "Verified" /\ task_pc'[i] = "Verified") =>
              /\ task_pc[i] = "Upserting"
              /\ basics[i] \notin written
              /\ basics[i] \in written'
              /\ store'[basics[i]]
                    = Some(RowOf(from_parts(basics[i], result[i])))

\* C20: a candidate goes Pending -> Probing -> one of Verified, Rejected,
\* Errored and never backwards; an outcome is final, and once it is
\* reached the candidate is neither probed nor written again; Verified is
\* entered only by the step in which upsert_quality_proxy succeeded.
C20_CandidateStateMachine ==
    /\ [][C20_Step]_vars
    /\ [](\A i \in Tasks : task_pc[i] = "Verified" => basics[i] \in written)
    /\ [](\A i \in Tasks : task_pc[i] \in {"Rejected", "Errored"} =>
                              basics[i] \notin written)

\* C20 witness: verify_all returned over a batch whose three candidates
\* ended Verified, Rejected and Errored.
C20_Witness ==
    /\ ReturnedOk
    /\ \E i, j, k \in Tasks :
          /\ task_pc[i] = "Verified"
          /\ task_pc[j] = "Rejected"
          /\ task_pc[k] = "Errored"

----------------------------------------------------------------------------
\* Further properties of verify_all (checked under Spec)

Running == main_pc \in {"join", "returned"}
TasksIn(states) == {i \in Tasks : task_pc[i] \in states}
HadRow(i) == IsSome(store_at_start[i]) /\ IsSome(store_at_start[i][1])

\* A step that reads or writes the store for task i: Find or FindError
\* leave "Finding", Upsert or UpsertError leave "Upserting".
StoreCallStep(i) ==
    /\ task_pc[i] \in {"Finding", "Upserting"}
    /\ task_pc'[i] # task_pc[i]

C21_Step ==
    /\ \A i \in Tasks :
          (StoreCallStep(i) /\ task_pc'[i] # "Panicked") =>
              /\ store_at_start[i] # None
              /\ permits < semaphore
              /\ permits' >= permits
    /\ store' # store => \E i \in Tasks : task_pc[i] = "Upserting"

\* C21: every permit taken is held by a task that is between its acquire
\* and its end, the store read and the store write included: the permits
\* left plus the tasks probing, finding or upserting always make up the
\* limit, no store call is made by a task without a permit, and at most
\* `semaphore` upserts are in flight.
C21_PermitHeldAcrossStore ==
    /\ [](Running => permits + Cardinality(Holders) = semaphore)
    /\ [](Running => Cardinality(TasksIn({"Upserting"})) <= semaphore)
    /\ [][C21_Step]_vars

\* C21 witness: with one permit, a task is about to write the store while
\* another still waits for the permit.
C21_Witness ==
    /\ semaphore = 1
    /\ permits = 0
    /\ TasksIn({"Upserting"}) # {}
    /\ TasksIn({"Pending"}) # {}

\* C25 as stated: every pass over a candidate that has a row, the task
\* not ending in an error, leaves the row with the last_checked of that
\* pass.
C25_EveryPassMutates ==
    \A i \in TasksIn({"Verified", "Rejected"}) :
        HadRow(i) => store[basics[i]][1].last_checked = Some(now)

\* C25 (amended): a pass over a candidate that has a row replaces the row
\* by the pass's values (last_checked is the clock of the pass) when the
\* task ends Verified, and leaves the row as it was when the task ends
\* Rejected, Errored or panicked.
C25_VerifiedPassMutates ==
    \A i \in Tasks :
        HadRow(i) =>
            /\ task_pc[i] = "Verified" =>
                  /\ store[basics[i]] # store_at_start[i][1]
                  /\ IsSome(store[basics[i]])
                  /\ store[basics[i]][1].last_checked = Some(now)
                  /\ store_at_start[i][1][1].last_checked # Some(now)
            /\ task_pc[i] \in {"Rejected", "Errored", "Panicked"} =>
                  store[basics[i]] = store_at_start[i][1]

\* C25 witness: a candidate that had the row of an earlier pass ended
\* Verified, another that had a row ended Rejected.
C25_Witness ==
    \E i, j \in Tasks :
        /\ task_pc[i] = "Verified"
        /\ store_at_start[i] = Some(Some(PriorRow))
        /\ task_pc[j] = "Rejected"
        /\ HadRow(j)

C29_Step ==
    /\ success_count' \in {success_count, success_count + 1}
    /\ (Running /\ success_count' = success_count + 1) =>
          \E i \in Tasks :
              /\ task_pc[i] = "Upserting"
              /\ task_pc'[i] = "Verified"
              /\ \A j \in Tasks \ {i} : task_pc'[j] = task_pc[j]

\* C29: when verify_all returns its count, succeeded is the number of
\* Verified candidates, failed = total - succeeded is the number of
\* Rejected and Errored ones, total being the length of the deduplicated
\* batch; succeeded never exceeds total and grows by one only in the step
\* that makes one candidate Verified.
C29_CountersPartition ==
    /\ [](ReturnedOk =>
            /\ ret[1].value = Cardinality(TasksIn({"Verified"}))
            /\ Len(basics) - ret[1].value
                  = Cardinality(TasksIn({"Rejected", "Errored"})))
    /\ [](Running => success_count = Cardinality(TasksIn({"Verified"})))
    /\ [](Running => success_count <= Len(basics))
    /\ [][C29_Step]_vars

\* C29 witness: a batch of three returned with one candidate of each
\* outcome, that is succeeded 1 and failed 2.
C29_Witness ==
    /\ ReturnedOk
    /\ Len(basics) = 3
    /\ ret[1].value = 1
    /\ Cardinality(TasksIn({"Rejected"})) = 1
    /\ Cardinality(TasksIn({"Errored"})) = 1

----------------------------------------------------------------------------
\* Properties of the table (checked under SpecStore)

QualityFields(row) ==
    <<row.speed, row.success_rate, row.stability, row.score,
      row.last_checked>>
AllSome(row) == \A k \in 1..5 : IsSome(QualityFields(row)[k])
AllNone(row) == \A k \in 1..5 : QualityFields(row)[k] = None
RowsOf(tbl, basic) == Matches(tbl, basic.ip, basic.port)

\* The table seen as the map (ip, port) -> Option<row> of verify_all.
StoreOf(tbl) ==
    [c \in Candidates |->
        IF RowsOf(tbl, c) = {} THEN None
        ELSE Some(RowOf(tbl[Lowest(RowsOf(tbl, c))]))]

\* The statements on the table act as insert_basic_proxy and
\* upsert_quality_proxy act on the map.
TableRefinesStore ==
    /\ last.op = "insert" =>
          StoreOf(table)
            = insert_basic_proxy(StoreOf(last.before), last.basic, now - 1)
    /\ last.op = "upsert" =>
          StoreOf(table)
            = upsert_quality_proxy(StoreOf(last.before), last.proxy[1])
    /\ last.op \in {"rejected", "error"} => table = last.before

\* C22: the Proxy evaluate returns has its five quality fields Some, and
\* every row of the table after any sequence of insert_basic_proxy calls
\* and verification passes has its five quality fields all Some or all
\* None.
C22_QualityFieldsTotal ==
    /\ last.op \in {"upsert", "rejected"} => AllSome(last.proxy[1])
    /\ \A k \in DOMAIN table : AllSome(table[k]) \/ AllNone(table[k])

\* C22 witness: the table holds a row insert_basic_proxy created and a
\* row a verification pass wrote.
C22_Witness ==
    /\ last.op = "upsert"
    /\ \E k \in DOMAIN table : table[k].success_rate = Some(0)
    /\ \E k \in DOMAIN table : unwrap_or(table[k].success_rate, 0) > 0

\* C23: upsert_quality_proxy(p) adds a row when the key has none and
\* otherwise sets the five quality columns of the key's row in place,
\* the other rows staying as they are; the table never holds two rows of
\* one (ip, port); find_proxy_by_ip_port right after the upsert returns p.
C23_UpsertInPlace ==
    /\ \A a, b \in DOMAIN table :
          (table[a].ip = table[b].ip /\ table[a].port = table[b].port)
              => a = b
    /\ last.op = "upsert" =>
          LET p == last.proxy[1]
              had == RowsOf(last.before, last.basic)
          IN  /\ SelectByIpPort(table, p.ip, p.port) = Some(p)
              /\ had = {} => table = Append(last.before, p)
              /\ had # {} =>
                    /\ Len(table) = Len(last.before)
                    /\ \A k \in DOMAIN table :
                          IF k \in had THEN table[k] = p
                          ELSE table[k] = last.before[k]

\* C23 witness: the latest operation was an upsert over a key that had a
\* row written by an earlier pass, with another key's row before it.
C23_Witness ==
    /\ last.op = "upsert"
    /\ Len(table) = 2
    /\ RowsOf(last.before, last.basic) = {2}
    /\ unwrap_or(last.before[2].success_rate, 0) > 0
    /\ table[2] # last.before[2]

\* C24: insert_basic_proxy on a key that has a row leaves the table as it
\* was, quality fields of an earlier pass included; a second call changes
\* nothing more; after it find_proxy_by_ip_port returns a record of that
\* ip and port.
C24_InsertOrIgnore ==
    last.op = "insert" =>
        LET found == SelectByIpPort(table, last.basic.ip, last.basic.port)
        IN  /\ RowsOf(last.before, last.basic) # {} => table = last.before
            /\ RowsOf(last.before, last.basic) = {} =>
                  /\ Len(table) = Len(last.before) + 1
                  /\ \A k \in DOMAIN last.before : table[k] = last.before[k]
            /\ InsertOrIgnore(table, last.basic, now) = table
            /\ IsSome(found)
            /\ found[1].ip = last.basic.ip
            /\ found[1].port = last.basic.port

\* C24 witness: insert_basic_proxy was called on a key whose row an
\* earlier pass had written, and the row is still that one.
C24_Witness ==
    /\ last.op = "insert"
    /\ RowsOf(last.before, last.basic) # {}
    /\ \E k \in RowsOf(table, last.basic) :
          /\ unwrap_or(table[k].success_rate, 0) > 0
          /\ table[k].last_checked # Some(now - 1)

----------------------------------------------------------------------------
\* Properties of the cache (checked under SpecCache)

\* The handlers that took a step.
Stepped(from, to) ==
    {h \in Handlers : handler_pc[h] = from /\ handler_pc'[h] = to}

C27_Step ==
    \* a handler that finds the entry present ends without a store read and
    \* without touching the entry
    /\ \A h \in Handlers :
          (handler_pc[h] = "start" /\ handler_pc'[h] # "start"
                /\ IsSome(cache))
              => /\ handler_pc'[h] = "done"
                 /\ reads' = reads
                 /\ cache' = cache
    \* only a handler that found the entry absent goes on to read the store
    /\ \A h \in Handlers :
          (handler_pc[h] = "start" /\ handler_pc'[h] = "list")
              => cache = None
    /\ reads' # reads =>
          Stepped("list", "set") \cup Stepped("list", "panicked") # {}
    \* the entry changes only in a set of a handler that missed, or in a
    \* remove or clear
    /\ cache' # cache =>
          \/ \E h \in Stepped("set", "done") :
                cache' = Some(handler_list[h])
          \/ cache' = None /\ handler_pc' = handler_pc /\ table' = table
    \* a store write and the passing of time leave the entry as it is
    /\ (table' # table \/ now' # now) => cache' = cache

\* C27: cache_proxies reads the store only after a miss; with the entry
\* present it reads nothing and leaves the entry unchanged; once present
\* the entry is changed only by a set, a remove or a clear, never by a
\* store write of a verification pass or by elapsed time.
C27_CacheChangedOnlyExplicitly == [][C27_Step]_vars

\* C27 witness: a handler found the entry present and ended without a
\* read, while the table had since been written and differs from the
\* entry.
C27_Witness ==
    /\ IsSome(cache)
    /\ reads = 1
    /\ \A h \in Handlers : handler_pc[h] = "done"
    /\ cache[1] \notin SelectAllByScore(table)
    /\ last.op = "upsert"

----------------------------------------------------------------------------
\* Properties of the table name (checked under SpecTable)

\* Non-empty, an ASCII letter first, then ASCII letters, digits and
\* underscores.
IsIdentifier(name) ==
    /\ Len(name) >= 1
    /\ name[1] \in {"a", "Z"}
    /\ \A k \in 2..Len(name) : name[k] \in {"a", "Z", "7", "_"}

----------------------------------------------------------------------------
\* Properties of the collecting loop (checked under SpecOrder)

\* run_tests has returned: every attempt has completed.
AllCompleted == Len(completed) = Len(outcome)

\* The results had the attempts completed in the order they were pushed.
InPushOrder == Collect(NewResults(Len(outcome)), outcome)

\* The counts and the success rate do not depend on the completion order.
CountsOrderIndependent ==
    AllCompleted =>
        /\ Len(collected.successes) = Len(InPushOrder.successes)
        /\ collected.failures = InPushOrder.failures
        /\ success_rate(collected) = success_rate(InPushOrder)

\* C30: whatever the order in which the attempts complete, run_tests
\* yields the same success count, failure count, success_rate and
\* average_speed.
C30_OrderIndependent ==
    AllCompleted =>
        /\ Len(collected.successes) = Len(InPushOrder.successes)
        /\ collected.failures = InPushOrder.failures
        /\ success_rate(collected) = success_rate(InPushOrder)
        /\ average_speed(collected) = average_speed(InPushOrder)

----------------------------------------------------------------------------
\* The store as verify_all uses it (checked under Spec)

HasDuplicates(s) == \E i, j \in DOMAIN s : i # j /\ s[i] = s[j]
KeysPresent(st) == {c \in DOMAIN st : IsSome(st[c])}
TasksOf(c) == {i \in Tasks : basics[i] = c}

C32_Step ==
    /\ KeysPresent(store) \subseteq KeysPresent(store')
    /\ \A c \in KeysPresent(store') \ KeysPresent(store) :
          \E i \in Tasks : basics[i] = c /\ task_pc'[i] = "Verified"

\* C32: verify_all deletes no row: the keys present in the store only
\* grow, and a key is added only for a candidate whose task ended
\* Verified.
C32_StoreOnlyGrows ==
    /\ [][C32_Step]_vars
    /\ [](\A c \in KeysPresent(store) :
             \/ \E s \in InitStores : IsSome(s[c])
             \/ \E i \in TasksIn({"Verified"}) : basics[i] = c)

\* C32 witness: the store held rows before the call, a task ended
\* Verified for a candidate that had none, and all of these keys are
\* present.
C32_Witness ==
    /\ main_pc = "returned"
    /\ \E i \in TasksIn({"Verified"}) :
          /\ store_at_start[i] = Some(None)
          /\ IsSome(store[basics[i]])
    /\ \E c \in KeysPresent(store) : c \notin written

\* C34: with a semaphore of 0 permits and a batch that is not empty no
\* task ever gets a permit: every task stays Pending, nothing is probed,
\* read or written, and verify_all does not return, neither Ok nor Err.
C34_ZeroPermitsHang ==
    (Running /\ semaphore = 0 /\ Len(basics) > 0) =>
        /\ \A i \in Tasks : task_pc[i] = "Pending"
        /\ permits = 0
        /\ main_pc = "join"
        /\ joined = 0
        /\ ret = None
        /\ upsert_calls = {}
        /\ written = {}
        /\ \A i \in Tasks : store_at_start[i] = None /\ result[i] = DefaultResult

\* C34 witness: verify_all spawned the tasks of a batch of MaxBatch
\* candidates under a semaphore of 0 permits.
C34_Witness ==
    /\ main_pc = "join"
    /\ semaphore = 0
    /\ Len(basics) = MaxBatch
    /\ \A i \in Tasks : task_pc[i] = "Pending"

\* C35: the permits left plus the tasks that hold one make up the limit
\* in every state of a call; a task gives its permit back however it ends
\* (Verified, Rejected, Errored, Panicked), so that all permits are back
\* when all tasks have ended.
C35_PermitsConserved ==
    Running =>
        /\ permits + Cardinality(Holders) = semaphore
        /\ permits \in 0..semaphore
        /\ \A i \in TasksIn(Terminal) : ~HoldsPermit(i)
        /\ (\A i \in Tasks : task_pc[i] \in Terminal) => permits = semaphore

\* C35 witness: the tasks of a call ended in three different ways, a
\* panic among them, and every permit is back.
C35_Witness ==
    /\ semaphore = MaxPermits
    /\ Len(basics) = 3
    /\ \A i \in Tasks : task_pc[i] \in Terminal
    /\ TasksIn({"Panicked"}) # {}
    /\ TasksIn({"Verified"}) # {}
    /\ TasksIn({"Rejected", "Errored"}) # {}
    /\ permits = semaphore

----------------------------------------------------------------------------
\* verify_all under fair scheduling (SpecLive)

\* The longest batch of SpecLive.
MaxLiveBatch == 2

\* What task i does next when the runtime polls it and the call it waits
\* for (the permit, the HTTP requests of run_tests, the store) has
\* completed.  A panic is never owed.
TaskStep(i) ==
    /\ i \in Tasks
    /\ \/ Acquire(i)
       \/ Probe(i)
       \/ ProbeError(i)
       \/ Find(i)
       \/ FindError(i)
       \/ Upsert(i)
       \/ UpsertError(i)
    /\ UNCHANGED <<config, probe_vars, pure_vars>>

\* What the caller of verify_all does next.
MainStep ==
    /\ Start \/ JoinNext \/ JoinError \/ Return
    /\ UNCHANGED <<config, probe_vars, pure_vars>>

\* The tokio runtime polls every task that can go on; every request has
\* a timeout, every store call completes.
Fairness ==
    /\ WF_vars(MainStep)
    /\ \A i \in 1..MaxLiveBatch : WF_vars(TaskStep(i))

\* The candidates in a fixed order.  Over a store without rows they
\* differ by name only, so a batch is taken up to renaming: its k-th
\* entry is one of the first k candidates.  Every pattern of duplicates
\* is among these batches.
LiveOrder ==
    <<ProxyBasic("10.0.0.1", "80"), ProxyBasic("10.0.0.1", "81"),
      ProxyBasic("10.0.0.2", "80")>>
LiveBatches ==
    UNION {{s \in [1..n -> Candidates] :
               \A k \in 1..n :
                   \E j \in 1..Min(k, Len(LiveOrder)) : s[k] = LiveOrder[j]} :
           n \in 0..MaxLiveBatch}

\* verify_all called on a batch of up to MaxLiveBatch candidates, with a
\* semaphore of 0..MaxPermits permits, one test URL and a store without
\* rows; `fetched` keeps the batch as it was given.
InitLive ==
    /\ basics \in LiveBatches
    /\ semaphore \in 0..MaxPermits
    /\ store = [c \in Candidates |-> None]
    /\ config = StoreConfig
    /\ main_pc = "start"
    /\ joined = 0
    /\ ret = None
    /\ task_pc = << >>
    /\ permits = 0
    /\ success_count = 0
    /\ result = << >>
    /\ now = 1
    /\ store_at_start = << >>
    /\ upsert_calls = {}
    /\ written = {}
    /\ ProbeIdle
    /\ fetched = basics
    /\ deduped = << >>
    /\ EvalIdle
    /\ SideIdle

SpecLive == InitLive /\ [][Next]_vars /\ Fairness

\* A task moves forward only: it is "Finding" (find_proxy_by_ip_port on
\* its key) once and "Upserting" (upsert_quality_proxy on its key) once,
\* and a step that writes the store writes the key of the task that takes
\* it and no other.
C31_Step ==
    /\ \A i \in Tasks :
          task_pc'[i] # task_pc[i] =>
              /\ Stage(task_pc'[i]) > Stage(task_pc[i])
              /\ basics'[i] = basics[i]
    /\ store' # store =>
          \E i \in Tasks :
              /\ task_pc[i] = "Upserting"
              /\ task_pc'[i] # "Upserting"
              /\ \A c \in DOMAIN store : c # basics[i] => store'[c] = store[c]

\* C31: within one verify_all call no two tasks have the same (ip, port),
\* whatever the batch (duplicates included): every key is read by at most
\* one find_proxy_by_ip_port and written by at most one
\* upsert_quality_proxy.
C31_OneTaskPerKey ==
    /\ [](Running => \A c \in Candidates : Cardinality(TasksOf(c)) <= 1)
    /\ [](\A c \in Candidates : Cardinality(UpsertsOf(upsert_calls, c)) <= 1)
    /\ [][C31_Step]_vars

\* C31 witness: the batch named one candidate twice, one task was made of
\* it, and that task read and wrote the candidate's key.
C31_Witness ==
    /\ HasDuplicates(fetched)
    /\ \E i \in Tasks :
          /\ Cardinality({k \in DOMAIN fetched : fetched[k] = basics[i]}) >= 2
          /\ task_pc[i] = "Verified"
          /\ Cardinality(UpsertsOf(upsert_calls, basics[i])) = 1

IsPending(i) == i \in Tasks /\ task_pc[i] = "Pending"
AllEnded == Running /\ \A i \in Tasks : task_pc[i] \in Terminal

\* C33: with at least one permit, whatever the batch, under fair
\* scheduling and with every request and store call completing, every
\* task leaves Pending and ends (Verified, Rejected, Errored or
\* Panicked), and verify_all returns.
C33_Terminates ==
    (semaphore >= 1) =>
        /\ <>[]AllEnded
        /\ <>(main_pc = "returned")
        /\ \A i \in 1..MaxLiveBatch : IsPending(i) ~> ~IsPending(i)

\* run_tests under the same fairness: every send_with_retries future is
\* polled, every request completes or times out, every sleep ends.
SpecProbeLive == InitProbe /\ [][NextProbe]_vars /\ WF_vars(NextProbe)

\* What Probe(i) stands on: run_tests returns for every test_count and
\* max_retries of ProbeConfigs unless a future panicked.
RunTestsEnds ==
    <>(\/ probe_pc \in {"returned", "failed"}
       \/ \E i \in Slots : slot_pc[i] = "panicked")

\* C33 witness: a batch of MaxLiveBatch candidates under one permit: all tasks
\* have ended and verify_all has returned their count.
C33_Witness ==
    /\ semaphore = 1
    /\ Len(basics) = MaxLiveBatch
    /\ AllEnded
    /\ ReturnedOk

----------------------------------------------------------------------------
\* service/verifier.rs: verify_single over many planned attempts
\* (SpecPersist)

\* The largest |test_urls| * test_count of SpecPersist.
MaxPlanned == 201

\* The QualityConfig values of SpecPersist: the three verify levels, the
\* default weights, 1..MaxPlanned planned attempts.
PersistConfigs ==
    {c \in {QualityConfig(l, u) : l \in 0..2, u \in 1..MaxPlanned} :
        total_tests(c) <= MaxPlanned}

\* The QualityTestResults run_tests can return under cfg with up to
\* MaxTotal successes, every success within 5 ms (round2(elapsed) = 0.00):
\* n successes of the planned total.
PersistResults(cfg) ==
    {[successes |-> [k \in 1..n |-> 0],
      failures |-> total_tests(cfg) - n,
      total |-> total_tests(cfg)] :
        n \in 0..Min(total_tests(cfg), MaxTotal)}

\* evaluate, lines 176-181: run_tests returned Ok.
PersistRunTests ==
    /\ eval_pc = "start"
    /\ \E r \in PersistResults(config) :
          /\ test_results' = r
          /\ updated' = ResultOfTests(r, now)
    /\ eval_pc' = "tested"
    /\ UNCHANGED <<config, store, verify_rest, probe_vars, dedup_vars,
                   side_vars>>

\* verify_single, lines 135-137: success_rate > 0.0, the upsert returned
\* Ok, Ok(true).
PersistUpsert ==
    /\ eval_pc = "returned"
    /\ unwrap_or(updated.success_rate, 0) > 0
    /\ store' = upsert_quality_proxy(store, from_parts(EvalProxy, updated))
    /\ eval_pc' = "written"
    /\ UNCHANGED <<config, verify_rest, probe_vars, dedup_vars, side_vars,
                   test_results, updated>>

\* verify_single, lines 138-140: Ok(false), nothing is written.
PersistSkip ==
    /\ eval_pc = "returned"
    /\ ~(unwrap_or(updated.success_rate, 0) > 0)
    /\ eval_pc' = "rejected"
    /\ UNCHANGED <<config, store, verify_rest, probe_vars, dedup_vars,
                   side_vars, test_results, updated>>

InitPersist ==
    /\ config \in PersistConfigs
    /\ store = [c \in Candidates |-> None]
    /\ eval_pc = "start"
    /\ test_results = NewResults(0)
    /\ updated = DefaultResult
    /\ basics = << >>
    /\ semaphore = 0
    /\ main_pc = "idle"
    /\ joined = 0
    /\ ret = None
    /\ task_pc = << >>
    /\ permits = 0
    /\ success_count = 0
    /\ result = << >>
    /\ now = 1
    /\ store_at_start = << >>
    /\ upsert_calls = {}
    /\ written = {}
    /\ ProbeIdle
    /\ DedupIdle
    /\ SideIdle

NextPersist ==
    \/ PersistRunTests
    \/ EvalFind
    \/ PersistUpsert
    \/ PersistSkip

SpecPersist == InitPersist /\ [][NextPersist]_vars

\* C36: a candidate is written if and only if at least one of its
\* planned attempts succeeded: whatever the planned total and the number
\* of successes n >= 1, the rounded success_rate is above 0 and the
\* candidate is written.
C36_PersistedIffSuccess ==
    eval_pc \in {"written", "rejected"} =>
        /\ eval_pc = "written" <=> Len(test_results.successes) >= 1
        /\ Len(test_results.successes) >= 1 => updated.success_rate[1] > 0
        /\ eval_pc = "written" <=> IsSome(store[EvalProxy])

----------------------------------------------------------------------------
\* service/quality.rs: send_with_retries against a target that never
\* answers 2xx, for every max_retries of its u8 parameter (SpecRetry)

\* One future (one test URL, test_count 1), max_retries any u8.
RetryConfigs ==
    {[QualityConfig(0, 1) EXCEPT !.max_retries = m] : m \in 0..U8Max}

InitRetry ==
    /\ config \in RetryConfigs
    /\ slot_pc = << >>
    /\ attempt = << >>
    /\ backoff = << >>
    /\ requests = << >>
    /\ last_response = << >>
    /\ sleeps = << >>
    /\ results = NewResults(0)
    /\ probe_pc = "start"
    /\ VerifyIdle
    /\ DedupIdle
    /\ EvalIdle
    /\ SideIdle

NextRetry ==
    \/ RunTestsStart
    \/ \E i \in Slots : SendErr(i)
    \/ \E i \in Slots : SendNon2xx(i)
    \/ \E i \in Slots : Wake(i)
    \/ RunTestsReturn

SpecRetry == InitRetry /\ [][NextRetry]_vars

\* C37: against a target that fails for good send_with_retries ends
\* after exactly max_retries + 1 tries for every u8 max_retries, 255
\* included: no panic, and the attempt counter never wraps to 0.
C37_ExactTries ==
    \A i \in Slots :
        /\ slot_pc[i] # "panicked"
        /\ requests[i] <= config.max_retries + 1
        /\ attempt[i] <= requests[i]
        /\ slot_pc[i] = "done" => requests[i] = config.max_retries + 1

----------------------------------------------------------------------------
\* service/verifier.rs: two verify_all calls at the same time, each with
\* the same single candidate (SpecRace)

\* The table both calls start from: one key without a row, one with the
\* row of insert_basic_proxy, one with the row of an earlier pass.
RaceStore == CHOOSE st \in InitStores : \E c \in Candidates : IsSome(st[c])

\* Task i is the one task of call i; both calls were given the same
\* candidate and have spawned their task.  Each call owns a semaphore of
\* one permit; permits and semaphore count the permits of both.
InitRace ==
    /\ basics \in {<<c, c>> : c \in Candidates}
    /\ semaphore = 2
    /\ permits = 2
    /\ store = RaceStore
    /\ config = VerifyConfig
    /\ main_pc = "join"
    /\ joined = 0
    /\ ret = None
    /\ task_pc = <<"Pending", "Pending">>
    /\ success_count = 0
    /\ result = <<DefaultResult, DefaultResult>>
    /\ now = 1
    /\ store_at_start = <<None, None>>
    /\ upsert_calls = {}
    /\ written = {}
    /\ ProbeIdle
    /\ DedupIdle
    /\ EvalIdle
    /\ SideIdle

NextRace ==
    \/ \E i \in Tasks : Acquire(i)
          /\ UNCHANGED <<config, probe_vars, pure_vars>>
    \/ \E i \in Tasks : Probe(i)
          /\ UNCHANGED <<config, probe_vars, pure_vars>>
    \/ \E i \in Tasks : Find(i)
          /\ UNCHANGED <<config, probe_vars, pure_vars>>
    \/ \E i \in Tasks : Upsert(i)
          /\ UNCHANGED <<config, probe_vars, pure_vars>>

SpecRace == InitRace /\ [][NextRace]_vars

\* What a pass measured, taken from the Proxy it handed to the upsert.
MeasuredBy(p) ==
    [DefaultResult EXCEPT !.speed = p.speed,
                          !.success_rate = p.success_rate,
                          !.last_checked = p.last_checked]

\* The table after a pass over candidate c that measured m and ran alone
\* on table st: evaluate reads the row, verify_single writes the result.
AfterPass(st, c, m) ==
    LET old == find_proxy_by_ip_port(st, c.ip, c.port)
    IN  upsert_quality_proxy(st, from_parts(c, ResultWithScore(m, old, config)))

\* The tables the two passes leave when one runs after the other, in
\* either order.
SerialStores ==
    LET measured == {MeasuredBy(p) : p \in upsert_calls}
    IN  {AfterPass(AfterPass(RaceStore, basics[1], mm[1]), basics[1], mm[2]) :
            mm \in {pair \in measured \X measured :
                       measured = {pair[1], pair[2]}}}

\* C38: two verify_all calls that run at the same time over the same
\* candidate are serializable with respect to the store: once both have
\* written, the row is the one that one of the two sequential orders of
\* the passes leaves (the later writer's stability is blended from the
\* row of the earlier writer).
C38_Serializable ==
    (\A i \in Tasks : task_pc[i] = "Verified") => store \in SerialStores

----------------------------------------------------------------------------
\* db/sqlite.rs: remove_proxy beside the other store operations
\* (SpecRemove)

\* The table name of the statement of remove_proxy, and a db.table_name
\* that validate_table_name accepts as well.
ProxiesName == <<"p", "r", "o", "x", "i", "e", "s">>
RemoveNames == {ProxiesName, <<"p", "o", "o", "l">>}

\* The ip values remove_proxy is called with: those of the candidates.
RemoveIps == {c.ip : c \in Candidates}

\* The rows of the table named `proxies`: the configured table when that
\* is its name, else the other table, if there is one.
ProxiesTable == IF table_name = ProxiesName THEN Some(table) ELSE proxies_table

\* DELETE FROM proxies WHERE ip = ?
DeleteByIp(tbl, ip) == SelectSeq(tbl, LAMBDA row : row.ip # ip)

\* get_storage().remove_proxy(ip): the DELETE runs on the table named
\* `proxies`; with no such table the statement fails and Err is returned;
\* otherwise Ok(true), whatever the number of rows deleted.  `last` keeps
\* the rows the table named `proxies` had before.
RemoveProxy(ip) ==
    /\ now <= MaxOps
    /\ IF ProxiesTable = None
       THEN /\ last' = [op |-> "remove_err", basic |-> ProxyBasic(ip, ""),
                        proxy |-> None, before |-> << >>]
            /\ UNCHANGED <<table, proxies_table>>
       ELSE /\ last' = [op |-> "remove", basic |-> ProxyBasic(ip, ""),
                        proxy |-> None, before |-> ProxiesTable[1]]
            /\ IF table_name = ProxiesName
               THEN /\ table' = DeleteByIp(table, ip)
                    /\ UNCHANGED proxies_table
               ELSE /\ proxies_table' = Some(DeleteByIp(proxies_table[1], ip))
                    /\ UNCHANGED table
    /\ now' = now + 1
    /\ UNCHANGED <<config, verify_but_now, probe_vars, dedup_vars, eval_vars,
                   cache_vars, name_vars, order_vars>>

\* The storage is set for a db.table_name of RemoveNames and its table
\* is empty; under another name than `proxies` the database holds no
\* table of that name, or one left by a run under that name, with or
\* without a row.
InitRemove ==
    /\ config = StoreConfig
    /\ VerifyIdle
    /\ ProbeIdle
    /\ DedupIdle
    /\ EvalIdle
    /\ CacheIdle
    /\ OrderIdle
    /\ table = << >>
    /\ last = NoOp
    /\ table_name \in RemoveNames
    /\ storage_pc = "ready"
    /\ proxies_table \in IF table_name = ProxiesName THEN {None}
                   ELSE {None, Some(<< >>),
                         Some(<<from_parts(EvalProxy, BasicRow(0))>>)}

NextRemove ==
    \/ \E c \in Candidates : StoreInsertBasic(c)
    \/ \E c \in Candidates : StoreVerifyPass(c)
    \/ \E ip \in RemoveIps : RemoveProxy(ip)

SpecRemove == InitRemove /\ [][NextRemove]_vars

\* C39: remove_proxy(ip) acts on the rows the other store operations
\* use: after it returned Ok, find_proxy_by_ip_port(ip, port) is None for
\* every port, under every db.table_name; and it returns true only when
\* at least one row was removed.
C39_RemoveActsOnStore ==
    last.op = "remove" =>
        /\ \A c \in Candidates :
              c.ip = last.basic.ip =>
                  SelectByIpPort(table, c.ip, c.port) = None
        /\ Len(ProxiesTable[1]) < Len(last.before)

====
